---- MODULE Spec2Model ----
(***************************************************************************)
(* Privacy-preserving aggregation and pattern detection of Sahay:          *)
(* services/data_processing.py (CSVDataProcessor), api/serializers.py      *)
(* (PatternDetector) and core/admin.py (generate_patterns command).        *)
(*                                                                         *)
(* A pandas DataFrame is a record [columns, rows]: the set of column names *)
(* and the sequence of rows, each row a function from the column names to  *)
(* values.  A missing value is NaN.  Timestamps are minutes since an       *)
(* arbitrary origin; a day has 1440 minutes.                               *)
(***************************************************************************)
EXTENDS Integers, Sequences, FiniteSets, TLC

VARIABLES
    k_threshold,            \* CSVDataProcessor.k_threshold
    K_ANONYMITY_THRESHOLD,  \* settings.K_ANONYMITY_THRESHOLD
    now,                    \* the wall clock: pd.Timestamp.now / timezone.now
    wellness_sessions,      \* CSVDataProcessor.data['wellness_sessions']
    learning_sessions,      \* CSVDataProcessor.data['learning_sessions']
    WellnessSession,        \* the rows of the Django model WellnessSession
    LearningSession,        \* the rows of the Django model LearningSession
    Pattern,                \* the rows of the Django model Pattern
    students,               \* CSVDataProcessor.data['students']
    actions,                \* CSVDataProcessor.data['actions']
    csv_files,              \* the CSV files that concurrent writers share
    writers,                \* the concurrent writers: their step and their table
    result                  \* what the last call returned or wrote

vars == <<k_threshold, K_ANONYMITY_THRESHOLD, now, wellness_sessions,
          learning_sessions, WellnessSession, LearningSession, Pattern,
          students, actions, csv_files, writers, result>>

(***************************************************************************)
(* Bounds of the model and constants of the program.                       *)
(***************************************************************************)
MaxAnonRows == 4        \* rows of the table in SpecAnon
MaxHashRows == 2        \* rows of the table in SpecHash
MaxSessions == 4        \* sessions of all tables in SpecDetect and SpecPatterns
MaxPatterns == 1        \* detection runs while fewer patterns are stored
MaxColumnRows == 2      \* rows of each CSV file in SpecColumns
MaxShareRows == 5       \* rows of the table in SpecShare
DEFAULT_K == 5          \* the default k-anonymity threshold
HASH_LEN == 16          \* hexdigest()[:16]
KValues == {2, 3}       \* the configured thresholds the model explores

DAY == 24 * 60
\* a jump of the clock: eight days and an hour
ClockStep == 8 * DAY + 60
\* The clock at construction: day 100, 14:05.
Epoch == 100 * DAY + 14 * 60 + 5

\* a missing value: NaN in a text column, NaN / NaT in a numeric or timestamp
\* column (no score and no timestamp of the model is negative)
NaN == "NaN"
NaNum == 0 - 1
NumericColumns == {"created_at", "mood_score", "anxiety_score", "total_score",
                   "quiz_score", "duration_minutes", "focus_score"}
Missing(c) == IF c \in NumericColumns THEN NaNum ELSE NaN

\* an argument left at its default None: a text one, a timestamp one
None == "None"
NoDate == 0 - 2

(***************************************************************************)
(* pandas helpers.                                                         *)
(***************************************************************************)
\* pd.DataFrame()
EmptyDataFrame == [columns |-> {}, rows |-> <<>>]

\* df.empty: no rows or no columns
IsEmpty(df) == Len(df.rows) = 0 \/ df.columns = {}

\* a row over the columns cols; the columns the row lacks are NaN
Align(row, cols) == [c \in cols |-> IF c \in DOMAIN row THEN row[c] ELSE Missing(c)]

\* pd.concat([df, pd.DataFrame([row])], ignore_index=True)
ConcatRow(df, row) ==
    LET cols == df.columns \cup DOMAIN row
    IN  [columns |-> cols,
         rows    |-> [i \in 1..Len(df.rows) |-> Align(df.rows[i], cols)]
                        \o <<Align(row, cols)>>]

\* df[mask]: the rows that satisfy Keep, in their order
Filter(df, Keep(_)) == [columns |-> df.columns, rows |-> SelectSeq(df.rows, Keep)]

\* df.groupby(col).size()[v]: the rows whose col is v (NaN keys form no group)
GroupSize(df, col, v) == Cardinality({i \in 1..Len(df.rows) : df.rows[i][col] = v})

\* df.drop(columns=[col])
DropColumn(df, col) ==
    [columns |-> df.columns \ {col},
     rows    |-> [i \in 1..Len(df.rows) |->
                    [c \in df.columns \ {col} |-> df.rows[i][c]]]]

\* df[col] = df[src].apply(F)
AssignColumn(df, col, src, F(_)) ==
    [columns |-> df.columns \cup {col},
     rows    |-> [i \in 1..Len(df.rows) |->
                    [c \in df.columns \cup {col} |->
                        IF c = col THEN F(df.rows[i][src]) ELSE df.rows[i][c]]]]

\* a slip that truncates to the day
Mutant_FloorHour(t) == IF t = NaNum THEN NaNum ELSE t - (t % DAY)

\* Timestamp.hour and Timestamp.floor('H')
HourOf(t) == (t \div 60) % 24
FloorHour(t) == IF t = NaNum THEN NaNum ELSE t - (t % 60)

\* f"{n:03d}"
Pad3(n) == IF n < 10 THEN "00" \o ToString(n)
           ELSE IF n < 100 THEN "0" \o ToString(n) ELSE ToString(n)

(***************************************************************************)
(* hashlib.sha256(s.encode()).hexdigest() on the identifiers of the model: *)
(* the digests are those of the library.                                   *)
(***************************************************************************)
Identifiers == {"", "S", "STU001", "STU002", "0123456789abcdef",
                "student-with-a-long-identifier-0001"}

sha256_hexdigest(s) ==
    CASE s = "" -> "e3b0c44298fc1c149afbf4c8996fb92427ae41e4649b934ca495991b7852b855"
      [] s = "S" -> "8de0b3c47f112c59745f717a626932264c422a7563954872e237b223af4ad643"
      [] s = "STU001" -> "ccda4464abcb9c2596058e503666e131f6f55e77f89f685a243ba0fc16fc0ac2"
      [] s = "STU002" -> "15ae7f8e6a895344b20e105af4b717292636619817f4be3683fb4d805ac5212c"
      [] s = "0123456789abcdef" -> "9f9f5111f7b27a781f1f1ddde5ebc2dd2b796bfc7365c9c28b548e564176929f"
      [] s = "student-with-a-long-identifier-0001" -> "7c85fd448d23aaccca0c28d75965ede6663d009783d0ef712f1bd4e3962e6d24"

\* a slip that keeps the whole digest
Mutant_hash_student_id(student_id) == sha256_hexdigest(student_id)

\* CSVDataProcessor._hash_student_id
_hash_student_id(student_id) == SubSeq(sha256_hexdigest(student_id), 1, HASH_LEN)

(***************************************************************************)
(* CSVDataProcessor: reads.                                                *)
(***************************************************************************)
\* CSVDataProcessor.get_wellness_sessions
get_wellness_sessions(student_id, start_date, end_date) ==
    LET df  == wellness_sessions
        ByStudent(r) == r["student_id"] = student_id
        FromStart(r) == r["created_at"] # NaNum /\ r["created_at"] >= start_date
        ToEnd(r)     == r["created_at"] # NaNum /\ r["created_at"] <= end_date
        df1 == IF student_id # None THEN Filter(df, ByStudent) ELSE df
        df2 == IF start_date # NoDate THEN Filter(df1, FromStart) ELSE df1
        df3 == IF end_date # NoDate THEN Filter(df2, ToEnd) ELSE df2
    IN  IF IsEmpty(df) THEN df ELSE df3

\* CSVDataProcessor.get_learning_sessions
get_learning_sessions(student_id, course_id, start_date, end_date) ==
    LET df  == learning_sessions
        ByStudent(r) == r["student_id"] = student_id
        ByCourse(r)  == r["course_id"] = course_id
        FromStart(r) == r["created_at"] # NaNum /\ r["created_at"] >= start_date
        ToEnd(r)     == r["created_at"] # NaNum /\ r["created_at"] <= end_date
        df1 == IF student_id # None THEN Filter(df, ByStudent) ELSE df
        df2 == IF course_id # None THEN Filter(df1, ByCourse) ELSE df1
        df3 == IF start_date # NoDate THEN Filter(df2, FromStart) ELSE df2
        df4 == IF end_date # NoDate THEN Filter(df3, ToEnd) ELSE df3
    IN  IF IsEmpty(df) THEN df ELSE df4

(***************************************************************************)
(* CSVDataProcessor._apply_k_anonymity                                     *)
(***************************************************************************)
\* a slip that counts a group as valid one row too early
Mutant_FilterQuasiIdentifier(df, qi) ==
    LET Valid(r) == r[qi] # Missing(qi) /\ GroupSize(df, qi, r[qi]) >= k_threshold - 1
    IN  IF qi \in df.columns THEN Filter(df, Valid) ELSE df

\* one pass of the loop over the quasi-identifiers: keep the rows whose value
\* of qi is shared by at least k_threshold rows of the table as it is now
FilterQuasiIdentifier(df, qi) ==
    LET Valid(r) == r[qi] # Missing(qi) /\ GroupSize(df, qi, r[qi]) >= k_threshold
    IN  IF qi \in df.columns THEN Filter(df, Valid) ELSE df

\* df['created_at'] = pd.to_datetime(df['created_at']).dt.floor('H')
FloorCreatedAt(df) ==
    IF "created_at" \in df.columns
    THEN [columns |-> df.columns,
          rows    |-> [i \in 1..Len(df.rows) |->
                         [df.rows[i] EXCEPT !["created_at"] = FloorHour(@)]]]
    ELSE df

_apply_k_anonymity(df) ==
    IF Len(df.rows) < k_threshold
    THEN EmptyDataFrame
    ELSE LET df1 == FilterQuasiIdentifier(df, "risk_level")
             df2 == IF "screener_type" \in df.columns
                    THEN FilterQuasiIdentifier(df1, "screener_type")
                    ELSE df1
         IN  FloorCreatedAt(df2)

(***************************************************************************)
(* CSVDataProcessor.add_wellness_session: a session_id and a created_at    *)
(* that session_data lacks are generated.  The whole table is saved after  *)
(* the append.  The call takes elapsed minutes.                            *)
(***************************************************************************)
add_wellness_session(session_data, elapsed) ==
    LET with_id == [c \in DOMAIN session_data \cup {"session_id", "created_at"} |->
                      IF c \in DOMAIN session_data THEN session_data[c]
                      ELSE IF c = "session_id"
                      THEN "WS" \o Pad3(Len(wellness_sessions.rows) + 1)
                      ELSE now]
    IN  /\ wellness_sessions' = ConcatRow(wellness_sessions, with_id)
        /\ now' = now + elapsed
        /\ result' = [op |-> "add_wellness_session", value |-> TRUE]
        /\ UNCHANGED <<actions, students, csv_files, writers, k_threshold,
                       K_ANONYMITY_THRESHOLD, learning_sessions,
                       WellnessSession, LearningSession, Pattern>>

(***************************************************************************)
(* CSVDataProcessor.export_wellness_sessions: result.file is the table     *)
(* written to the export CSV, result.path is "" when nothing is written.   *)
(***************************************************************************)
export_wellness_sessions(start_date, end_date) ==
    LET df     == get_wellness_sessions(None, start_date, end_date)
        hashed == AssignColumn(df, "student_id_hash", "student_id", _hash_student_id)
        df_anonymous == _apply_k_anonymity(DropColumn(hashed, "student_id"))
    IN  /\ result' = IF IsEmpty(df)
                     THEN [op |-> "export_wellness_sessions", path |-> "",
                           start_date |-> start_date, end_date |-> end_date]
                     ELSE [op |-> "export_wellness_sessions", path |-> "export.csv",
                           start_date |-> start_date, end_date |-> end_date,
                           file |-> df_anonymous]
        /\ UNCHANGED <<actions, students, csv_files, writers, k_threshold,
                       K_ANONYMITY_THRESHOLD, now, wellness_sessions,
                       learning_sessions, WellnessSession, LearningSession, Pattern>>

\* a direct call of _apply_k_anonymity on a table, and on its own output
\* (tests/test_models.py, CSVDataProcessorTest.test_k_anonymity_application)
apply_k_anonymity_call ==
    /\ result' = [op |-> "_apply_k_anonymity",
                  once  |-> _apply_k_anonymity(wellness_sessions),
                  twice |-> _apply_k_anonymity(_apply_k_anonymity(wellness_sessions))]
    /\ UNCHANGED <<actions, students, csv_files, writers, k_threshold,
                   K_ANONYMITY_THRESHOLD, now, wellness_sessions,
                   learning_sessions, WellnessSession, LearningSession, Pattern>>

\* a direct call of _hash_student_id, twice
\* (tests/test_models.py, CSVDataProcessorTest.test_hash_student_id)
hash_student_id_call(student_id) ==
    /\ result' = [op |-> "_hash_student_id", student_id |-> student_id,
                  hashed  |-> _hash_student_id(student_id),
                  hashed2 |-> _hash_student_id(student_id)]
    /\ UNCHANGED <<actions, students, csv_files, writers, k_threshold,
                   K_ANONYMITY_THRESHOLD, now, wellness_sessions,
                   learning_sessions, WellnessSession, LearningSession, Pattern>>

(***************************************************************************)
(* Sequence helpers.                                                       *)
(***************************************************************************)
\* the elements of s, each kept at its first occurrence (the key order of a
\* dict filled while iterating s)
RECURSIVE Distinct(_)
Distinct(s) ==
    IF s = <<>> THEN <<>>
    ELSE LET init == Distinct(SubSeq(s, 1, Len(s) - 1))
             last == s[Len(s)]
         IN  IF \E i \in 1..Len(init) : init[i] = last THEN init ELSE Append(init, last)

\* the concatenation of the sequences of ss
RECURSIVE ConcatAll(_)
ConcatAll(ss) == IF ss = <<>> THEN <<>> ELSE Head(ss) \o ConcatAll(Tail(ss))

\* s in reverse order
Reverse(s) == [i \in 1..Len(s) |-> s[Len(s) + 1 - i]]

\* the sum of f[i] over a sequence of numbers
RECURSIVE SumSeq(_)
SumSeq(s) == IF s = <<>> THEN 0 ELSE Head(s) + SumSeq(Tail(s))

(***************************************************************************)
(* The Django models.  A table is the sequence of its rows in creation     *)
(* order; created_at is set by auto_now_add, to the minute of the clock.   *)
(***************************************************************************)
\* WellnessSession.objects.create(session_id=..., student=..., ...)
\* (tests/test_models.py, PatternDetectionAPITest.setUp)
create_WellnessSession(fields) ==
    /\ WellnessSession' = Append(WellnessSession,
          [session_id    |-> "SESS" \o Pad3(Len(WellnessSession)),
           student_id    |-> fields.student_id,
           mood_score    |-> fields.mood_score,
           anxiety_score |-> fields.anxiety_score,
           risk_level    |-> fields.risk_level,
           created_at    |-> now])
    /\ result' = [op |-> "WellnessSession.objects.create"]
    /\ UNCHANGED <<actions, students, csv_files, writers, k_threshold,
                   K_ANONYMITY_THRESHOLD, now, wellness_sessions,
                   learning_sessions, LearningSession, Pattern>>

\* LearningSession.objects.create(...)
create_LearningSession(fields) ==
    /\ LearningSession' = Append(LearningSession,
          [session_id          |-> "LS" \o Pad3(Len(LearningSession)),
           student_id          |-> fields.student_id,
           course_id           |-> fields.course_id,
           comprehension_level |-> fields.comprehension_level,
           created_at          |-> now])
    /\ result' = [op |-> "LearningSession.objects.create"]
    /\ UNCHANGED <<actions, students, csv_files, writers, k_threshold,
                   K_ANONYMITY_THRESHOLD, now, wellness_sessions,
                   learning_sessions, WellnessSession, Pattern>>

\* Model.objects.filter(created_at__gte=cutoff), in the order of Meta.ordering
\* ('-created_at': the newest first)
FilterSince(table, cutoff) ==
    LET Recent(r) == r.created_at >= cutoff
    IN  Reverse(SelectSeq(table, Recent))

\* Pattern.objects.create(**fields): created_at is the time of the call and
\* time_window_days defaults to 7; no validator runs
NewPattern(fields) ==
    [pattern_type        |-> fields.pattern_type,
     k_count             |-> fields.k_count,
     pattern_data        |-> fields.pattern_data,
     severity            |-> fields.severity,
     class_id            |-> IF "class_id" \in DOMAIN fields THEN fields.class_id ELSE None,
     time_window_days    |-> IF "time_window_days" \in DOMAIN fields
                             THEN fields.time_window_days ELSE 7,
     recommended_actions |-> fields.recommended_actions,
     created_at          |-> now]

(***************************************************************************)
(* PatternDetector (api/serializers.py).  A mean or a percentage is kept   *)
(* as the exact fraction [num, den]; the comparisons of a mean of integer  *)
(* scores with 6 and 7 are decided on the integers.                        *)
(***************************************************************************)
\* the sessions of a hour group, and those with a truthy anxiety score
HourGroup(sessions, hour) ==
    SelectSeq(sessions, LAMBDA s : HourOf(s.created_at) = hour)
Scored(group) ==
    SelectSeq(group, LAMBDA s : s.anxiety_score # NaNum /\ s.anxiety_score # 0)
AnxietySum(group) == SumSeq([i \in 1..Len(group) |-> group[i].anxiety_score])

\* PatternDetector._detect_temporal_patterns
_detect_temporal_patterns(sessions) ==
    LET hours == Distinct([i \in 1..Len(sessions) |-> HourOf(sessions[i].created_at)])
        OfHour(hour) ==
            LET group_sessions == HourGroup(sessions, hour)
                scored == Scored(group_sessions)
                total  == AnxietySum(scored)
                n      == Len(scored)
            IN  IF Len(group_sessions) >= K_ANONYMITY_THRESHOLD
                   /\ n > 0 /\ total > 6 * n
                THEN <<NewPattern(
                         [pattern_type |-> "temporal",
                          k_count |-> Len(group_sessions),
                          pattern_data |-> [hour |-> hour,
                                            avg_anxiety |-> [num |-> total, den |-> n],
                                            pattern |-> "high_stress_hour"],
                          severity |-> IF total > 7 * n THEN "medium" ELSE "low",
                          recommended_actions |->
                              <<"Schedule breaks", "Relaxation exercises">>])>>
                ELSE <<>>
    IN  ConcatAll([i \in 1..Len(hours) |-> OfHour(hours[i])])

\* PatternDetector._get_risk_actions
_get_risk_actions(risk_level) ==
    CASE risk_level = "L1" ->
            <<"Continue regular check-ins", "Encourage positive activities">>
      [] risk_level = "L2" ->
            <<"Increase support", "Suggest wellness resources", "Connect with peer support">>
      [] risk_level = "L3" ->
            <<"Priority support", "Professional counseling referral", "Daily check-ins">>
      [] OTHER -> <<>>

\* the number of sessions of a risk level
RiskCount(sessions, risk_level) ==
    Cardinality({i \in 1..Len(sessions) : sessions[i].risk_level = risk_level})

\* a slip that rates every risk level high
Mutant_RiskSeverity(risk_level) == "high"

\* severity = 'high' if risk_level == 'L3' else 'medium'
RiskSeverity(risk_level) == IF risk_level = "L3" THEN "high" ELSE "medium"

\* a slip that suppresses only the groups below k - 1
Mutant_RiskGroupPasses(count, k) == count >= k - 1

\* if count >= k_threshold
RiskGroupPasses(count, k) == count >= k

\* PatternDetector._detect_risk_patterns: one row of the GROUP BY risk_level
\* per level, taken here in the order in which the levels first occur
_detect_risk_patterns(sessions) ==
    LET levels == Distinct([i \in 1..Len(sessions) |-> sessions[i].risk_level])
        OfLevel(risk_level) ==
            LET count == RiskCount(sessions, risk_level)
            IN  IF RiskGroupPasses(count, K_ANONYMITY_THRESHOLD)
                THEN <<NewPattern(
                         [pattern_type |-> "risk",
                          k_count |-> count,
                          pattern_data |-> [risk_level |-> risk_level,
                                            percentage |-> [num |-> count * 100,
                                                            den |-> Len(sessions)]],
                          severity |-> RiskSeverity(risk_level),
                          recommended_actions |-> _get_risk_actions(risk_level)])>>
                ELSE <<>>
    IN  ConcatAll([i \in 1..Len(levels) |-> OfLevel(levels[i])])

\* PatternDetector._detect_academic_patterns: the learning sessions of the
\* last 7 days, of every class
_detect_academic_patterns(class_id, sessions) ==
    LET learning == FilterSince(LearningSession, now - 7 * DAY)
        low_comprehension ==
            Cardinality({i \in 1..Len(learning) : learning[i].comprehension_level = "low"})
    IN  IF Len(learning) >= K_ANONYMITY_THRESHOLD
           /\ low_comprehension >= K_ANONYMITY_THRESHOLD
        THEN <<NewPattern(
                 [pattern_type |-> "academic",
                  k_count |-> low_comprehension,
                  class_id |-> class_id,
                  pattern_data |-> [issue |-> "low_comprehension",
                                    percentage |-> [num |-> low_comprehension * 100,
                                                    den |-> Len(learning)]],
                  severity |-> IF low_comprehension > K_ANONYMITY_THRESHOLD * 2
                               THEN "high" ELSE "medium",
                  recommended_actions |->
                      <<"Review teaching methods", "Additional practice sessions">>])>>
        ELSE <<>>

\* a slip that runs the rules on a window below the threshold
Mutant_DetectedPatterns(class_id, time_window_days) ==
    LET sessions == FilterSince(WellnessSession, now - time_window_days * DAY)
    IN  _detect_temporal_patterns(sessions)
        \o _detect_risk_patterns(sessions)
        \o (IF class_id # None
            THEN _detect_academic_patterns(class_id, sessions) ELSE <<>>)

\* the patterns a call of detect_patterns creates and returns
DetectedPatterns(class_id, time_window_days) ==
    LET sessions == FilterSince(WellnessSession, now - time_window_days * DAY)
    IN  IF Len(sessions) < K_ANONYMITY_THRESHOLD
        THEN <<>>
        ELSE _detect_temporal_patterns(sessions)
             \o _detect_risk_patterns(sessions)
             \o (IF class_id # None
                 THEN _detect_academic_patterns(class_id, sessions) ELSE <<>>)

\* PatternDetector.detect_patterns
detect_patterns(class_id, time_window_days) ==
    LET patterns == DetectedPatterns(class_id, time_window_days)
    IN  /\ Pattern' = Pattern \o patterns
        /\ result' = [op |-> "detect_patterns", class_id |-> class_id,
                      time_window_days |-> time_window_days, patterns |-> patterns]
        /\ UNCHANGED <<actions, students, csv_files, writers, k_threshold,
                       K_ANONYMITY_THRESHOLD, now, wellness_sessions,
                       learning_sessions, WellnessSession, LearningSession>>

(***************************************************************************)
(* The generate_patterns command (core/admin.py, Command.handle).          *)
(***************************************************************************)
generate_patterns(days) ==
    LET sessions == FilterSince(WellnessSession, now - days * DAY)
        levels == Distinct([i \in 1..Len(sessions) |-> sessions[i].risk_level])
        OfLevel(risk_level) ==
            LET count == RiskCount(sessions, risk_level)
            IN  IF RiskGroupPasses(count, K_ANONYMITY_THRESHOLD)
                THEN <<NewPattern(
                         [pattern_type |-> "risk",
                          k_count |-> count,
                          pattern_data |-> [risk_level |-> risk_level,
                                            percentage |-> [num |-> count * 100,
                                                            den |-> Len(sessions)]],
                          severity |-> RiskSeverity(risk_level),
                          time_window_days |-> days,
                          recommended_actions |->
                              <<"Increase support", "Monitor closely">>])>>
                ELSE <<>>
        patterns == IF Len(sessions) < K_ANONYMITY_THRESHOLD THEN <<>>
                    ELSE ConcatAll([i \in 1..Len(levels) |-> OfLevel(levels[i])])
    IN  /\ Pattern' = Pattern \o patterns
        /\ result' = [op |-> "generate_patterns", time_window_days |-> days,
                      patterns_created |-> Len(patterns)]
        /\ UNCHANGED <<actions, students, csv_files, writers, k_threshold,
                       K_ANONYMITY_THRESHOLD, now, wellness_sessions,
                       learning_sessions, WellnessSession, LearningSession>>

\* time passes between two calls
advance_clock(minutes) ==
    /\ now' = now + minutes
    /\ result' = [op |-> "advance_clock"]
    /\ UNCHANGED <<actions, students, csv_files, writers, k_threshold,
                   K_ANONYMITY_THRESHOLD, wellness_sessions,
                   learning_sessions, WellnessSession, LearningSession, Pattern>>

(***************************************************************************)
(* float64 arithmetic of Series.mean() and of the comparisons of the       *)
(* trend.  A finite float of the model is [ip, frac]: its integer part and *)
(* the 52 binary digits after the point.  Scores are at least 1, so every  *)
(* mean is at least 1 and 52 digits hold every value that occurs.          *)
(***************************************************************************)
\* the significand of a float64: 52 stored bits and the hidden one
SignificandBits == 52 + 1

\* float('nan'): the mean of no value
FloatNaN == [ip |-> NaNum, frac |-> <<>>]

\* the binary digits of n
RECURSIVE BitLen(_)
BitLen(n) == IF n < 2 THEN 1 ELSE 1 + BitLen(n \div 2)

\* 2^n modulo m, by repeated squaring
RECURSIVE Pow2Mod(_, _)
Pow2Mod(n, m) ==
    IF n = 0 THEN 1 % m
    ELSE ((IF n % 2 = 1 THEN 2 ELSE 1) * Pow2Mod(n \div 2, m) * Pow2Mod(n \div 2, m)) % m

\* the remainder left once n binary digits of r / m after the point are
\* produced, for r < m
DivideRem(r, m, n) == (r * Pow2Mod(n, m)) % m

\* the first n binary digits of r / m after the point, for r < m
DivideBits(r, m, n) == [i \in 1..n |-> (2 * DivideRem(r, m, i - 1)) \div m]

\* the largest of a set of numbers
Largest(S) == CHOOSE x \in S : \A y \in S : y <= x

\* bits + 1 in the last place, with the carry out of the first digit: the
\* last 0 becomes 1 and the digits after it 0
Increment(bits) ==
    LET zeros == {i \in 1..Len(bits) : bits[i] = 0}
    IN  IF zeros = {}
        THEN [bits |-> [i \in 1..Len(bits) |-> 0], carry |-> 1]
        ELSE [bits |-> [i \in 1..Len(bits) |->
                          IF i < Largest(zeros) THEN bits[i]
                          ELSE IF i = Largest(zeros) THEN 1 ELSE 0],
              carry |-> 0]

\* bits followed by zeros up to 52 digits
Pad52(bits) ==
    [i \in 1..(SignificandBits - 1) |-> IF i <= Len(bits) THEN bits[i] ELSE 0]

\* round-to-nearest, ties-to-even, of ip + 0.bits (+ something below the
\* last digit when sticky) to the significand of a float64
RoundHalfEven(ip, bits, sticky) ==
    LET keep == SignificandBits - BitLen(ip)
    IN  IF Len(bits) <= keep THEN [ip |-> ip, frac |-> Pad52(bits)]
        ELSE LET kept  == SubSeq(bits, 1, keep)
                 half  == bits[keep + 1] = 1
                 below == sticky \/ \E i \in (keep + 2)..Len(bits) : bits[i] = 1
                 odd   == IF keep = 0 THEN ip % 2 = 1 ELSE kept[keep] = 1
                 up    == Increment(kept)
             IN  IF half /\ (below \/ odd)
                 THEN [ip |-> ip + up.carry, frac |-> Pad52(up.bits)]
                 ELSE [ip |-> ip, frac |-> Pad52(kept)]

\* float(s) / m for integers s >= m >= 1
FloatDivide(s, m) ==
    LET q    == s \div m
        keep == SignificandBits - BitLen(q)
    IN  RoundHalfEven(q, DivideBits(s % m, m, keep + 1),
                      DivideRem(s % m, m, keep + 1) # 0)

\* x + n for a float x and an integer n with x + n >= 0
FloatAdd(x, n) ==
    IF x = FloatNaN THEN FloatNaN ELSE RoundHalfEven(x.ip + n, x.frac, FALSE)

\* x < y: any comparison with nan is False
FloatLess(x, y) ==
    /\ x # FloatNaN
    /\ y # FloatNaN
    /\ \/ x.ip < y.ip
       \/ /\ x.ip = y.ip
          /\ \E i \in 1..Len(x.frac) :
                /\ x.frac[i] < y.frac[i]
                /\ \A j \in 1..(i - 1) : x.frac[j] = y.frac[j]

(***************************************************************************)
(* float64 arithmetic of high_risk_percentage: the mean of a boolean       *)
(* column, count / total, times 100.  A share below 1 is [ip |-> 0, frac]  *)
(* with as many digits after the point as its 53 significant ones need.    *)
(***************************************************************************)
\* the zeros after the point before the first 1 of r / m, for 0 < r < m
RECURSIVE LeadingZeros(_, _)
LeadingZeros(r, m) == IF 2 * r >= m THEN 0 ELSE 1 + LeadingZeros(2 * r, m)

\* float(count) / total for 0 <= count <= total
FloatShare(count, total) ==
    IF count = 0 THEN [ip |-> 0, frac |-> Pad52(<<>>)]
    ELSE IF count = total THEN FloatDivide(count, total)
    ELSE LET keep  == LeadingZeros(count, total) + SignificandBits
             bits  == DivideBits(count, total, keep + 1)
             kept  == SubSeq(bits, 1, keep)
             below == DivideRem(count, total, keep + 1) # 0
             up    == Increment(kept)
         IN  IF bits[keep + 1] = 1 /\ (below \/ kept[keep] = 1)
             THEN [ip |-> up.carry, frac |-> up.bits]
             ELSE [ip |-> 0, frac |-> kept]

\* the carry out of the first digit of bits * k + carry for a carry >= 0,
\* the digits taken half by half from the last
RECURSIVE MultiplyCarry(_, _, _)
MultiplyCarry(bits, k, carry) ==
    IF carry < 0 \/ bits = <<>> THEN carry
    ELSE IF Len(bits) = 1 THEN (bits[1] * k + carry) \div 2
    ELSE MultiplyCarry(SubSeq(bits, 1, Len(bits) \div 2), k,
                       MultiplyCarry(SubSeq(bits, Len(bits) \div 2 + 1, Len(bits)),
                                     k, carry))

\* the binary digits of bits * k + carry after the point
RECURSIVE MultiplyBits(_, _, _)
MultiplyBits(bits, k, carry) ==
    IF bits = <<>> THEN <<>>
    ELSE IF Len(bits) = 1 THEN <<(bits[1] * k + carry) % 2>>
    ELSE MultiplyBits(SubSeq(bits, 1, Len(bits) \div 2), k,
                      MultiplyCarry(SubSeq(bits, Len(bits) \div 2 + 1, Len(bits)),
                                    k, carry))
            \o MultiplyBits(SubSeq(bits, Len(bits) \div 2 + 1, Len(bits)), k, carry)

\* x * k for a float x >= 0 and an integer k >= 1 with x * k >= 1 or x = 0
FloatTimes(x, k) ==
    RoundHalfEven(x.ip * k + MultiplyCarry(x.frac, k, 0),
                  MultiplyBits(x.frac, k, 0), FALSE)

\* float(n) for a small integer n >= 0
FloatOf(n) == [ip |-> n, frac |-> Pad52(<<>>)]

\* the rows a table of wellness sessions has at most in any specification
ShareRows == Largest({MaxSessions, MaxColumnRows, MaxShareRows})

\* (sessions['risk_level'] == 'L3').mean() * 100 as a float, by the number of
\* L3 rows and the number of rows
HighRiskPercentage ==
    [total \in 1..ShareRows |->
        [count \in 0..total |-> FloatTimes(FloatShare(count, total), 100)]]

\* the float of a percentage kept as [num |-> 100 * count, den |-> total]
PercentFloat(p) == HighRiskPercentage[p.den][p.num \div 100]

\* a slip that takes a share of exactly 20% for a high one
Mutant_HighRiskShare(p) == ~FloatLess(PercentFloat(p), FloatOf(20))

\* wellness.get('high_risk_percentage', 0) > 20
HighRiskShare(p) == FloatLess(FloatOf(20), PercentFloat(p))

(***************************************************************************)
(* CSVDataProcessor.generate_analytics_report and its helpers.  A mean or  *)
(* a percentage is kept as the exact fraction [num, den] (den = 0: NaN).   *)
(***************************************************************************)
\* the values of a column that are not NaN, in row order
ColumnValues(df, col) ==
    LET present == SelectSeq(df.rows, LAMBDA r : r[col] # Missing(col))
    IN  [i \in 1..Len(present) |-> present[i][col]]

\* df[col].mean()
ColumnMean(df, col) ==
    [num |-> SumSeq(ColumnValues(df, col)), den |-> Len(ColumnValues(df, col))]

\* df[col].value_counts().to_dict()
ValueCounts(df, col) ==
    LET values == {df.rows[i][col] : i \in 1..Len(df.rows)} \ {Missing(col)}
    IN  [v \in values |-> GroupSize(df, col, v)]

\* df[col].value_counts().head(3).to_dict(): the three most frequent values
HeadCounts(df, col) ==
    LET counts == ValueCounts(df, col)
        top == CHOOSE S \in SUBSET DOMAIN counts :
                  /\ Cardinality(S) = IF Cardinality(DOMAIN counts) < 3
                                      THEN Cardinality(DOMAIN counts) ELSE 3
                  /\ \A v \in S, w \in DOMAIN counts \ S : counts[v] >= counts[w]
    IN  [v \in top |-> counts[v]]

\* CSVDataProcessor._calculate_wellness_metrics
_calculate_wellness_metrics(sessions) ==
    IF IsEmpty(sessions)
    THEN [avg_mood_score |-> [num |-> 0, den |-> 1],
          avg_anxiety_score |-> [num |-> 0, den |-> 1],
          risk_distribution |-> <<>>,
          total_sessions |-> 0,
          high_risk_percentage |-> [num |-> 0, den |-> 1]]
    ELSE [avg_mood_score |-> IF "mood_score" \in sessions.columns
                             THEN ColumnMean(sessions, "mood_score")
                             ELSE [num |-> 0, den |-> 1],
          avg_anxiety_score |-> IF "anxiety_score" \in sessions.columns
                                THEN ColumnMean(sessions, "anxiety_score")
                                ELSE [num |-> 0, den |-> 1],
          risk_distribution |-> IF "risk_level" \in sessions.columns
                                THEN ValueCounts(sessions, "risk_level") ELSE <<>>,
          total_sessions |-> Len(sessions.rows),
          high_risk_percentage |->
              IF "risk_level" \in sessions.columns
              THEN [num |-> 100 * GroupSize(sessions, "risk_level", "L3"),
                    den |-> Len(sessions.rows)]
              ELSE [num |-> 0, den |-> 1]]

\* CSVDataProcessor._calculate_learning_metrics
_calculate_learning_metrics(sessions) ==
    IF IsEmpty(sessions)
    THEN [avg_quiz_score |-> [num |-> 0, den |-> 1],
          avg_duration |-> [num |-> 0, den |-> 1],
          comprehension_distribution |-> <<>>,
          total_sessions |-> 0]
    ELSE [avg_quiz_score |-> IF "quiz_score" \in sessions.columns
                             THEN ColumnMean(sessions, "quiz_score")
                             ELSE [num |-> 0, den |-> 1],
          avg_duration |-> IF "duration_minutes" \in sessions.columns
                           THEN ColumnMean(sessions, "duration_minutes")
                           ELSE [num |-> 0, den |-> 1],
          comprehension_distribution |->
              IF "comprehension_level" \in sessions.columns
              THEN ValueCounts(sessions, "comprehension_level") ELSE <<>>,
          total_sessions |-> Len(sessions.rows)]

\* the rows of an hour of the day (a row without a timestamp has no hour)
HourRows(df, hour) ==
    Filter(df, LAMBDA r : r["created_at"] # NaNum /\ HourOf(r["created_at"]) = hour)

\* a slip that reports the hour groups one session below the threshold
Mutant_HourGroupPasses(count, k) == count >= k - 1

\* row['count'] >= self.k_threshold
HourGroupPasses(count, k) == count >= k

\* the temporal rule of _detect_patterns_csv: groupby('hour') on the anxiety
\* scores, the hours in ascending order; count is the number of scores
TemporalPatternsCsv(wellness) ==
    LET OfHour(hour) ==
            LET scores == ColumnValues(HourRows(wellness, hour), "anxiety_score")
                count  == Len(scores)
                total  == SumSeq(scores)
            IN  IF count > 0 /\ HourGroupPasses(count, k_threshold) /\ total > 6 * count
                THEN <<[type |-> "temporal",
                        description |-> "High anxiety at hour " \o ToString(hour),
                        severity |-> IF total > 8 * count THEN "high" ELSE "medium",
                        k_count |-> count]>>
                ELSE <<>>
    IN  IF ~IsEmpty(wellness) /\ "created_at" \in wellness.columns
           /\ "anxiety_score" \in wellness.columns
        THEN ConcatAll([h \in 1..24 |-> OfHour(h - 1)])
        ELSE <<>>

\* the academic rule of _detect_patterns_csv
AcademicPatternsCsv(learning) ==
    LET low_comprehension == Filter(learning, LAMBDA r : r["comprehension_level"] = "low")
    IN  IF ~IsEmpty(learning) /\ "comprehension_level" \in learning.columns
           /\ Len(low_comprehension.rows) >= k_threshold
        THEN <<[type |-> "academic",
                description |-> "Low comprehension detected",
                severity |-> "high",
                k_count |-> Len(low_comprehension.rows),
                topics |-> IF "topic" \in low_comprehension.columns
                           THEN HeadCounts(low_comprehension, "topic") ELSE <<>>]>>
        ELSE <<>>

\* CSVDataProcessor._detect_patterns_csv
_detect_patterns_csv(wellness, learning) ==
    TemporalPatternsCsv(wellness) \o AcademicPatternsCsv(learning)

\* the sessions a report is made of: those of the window, and with a class_id
\* the learning sessions of the class and the wellness sessions of its students
ReportLearning(class_id, time_window_days) ==
    LET learning == get_learning_sessions(None, None, now - time_window_days * DAY, NoDate)
    IN  IF class_id # None
        THEN Filter(learning, LAMBDA r : r["course_id"] = class_id)
        ELSE learning

ReportWellness(class_id, time_window_days) ==
    LET wellness == get_wellness_sessions(None, now - time_window_days * DAY, NoDate)
        learning == ReportLearning(class_id, time_window_days)
        class_students == {learning.rows[i]["student_id"] : i \in 1..Len(learning.rows)}
    IN  IF class_id # None
        THEN Filter(wellness, LAMBDA r : r["student_id"] \in class_students)
        ELSE wellness

\* the recommendations of the patterns, in the order of the patterns
PatternRecommendations(patterns) ==
    ConcatAll([i \in 1..Len(patterns) |->
        IF patterns[i].type = "temporal" /\ patterns[i].severity = "high"
        THEN <<"Schedule support during high-stress hours">>
        ELSE IF patterns[i].type = "academic" /\ patterns[i].severity = "high"
        THEN <<"Provide additional resources for challenging topics">>
        ELSE <<>>])

\* CSVDataProcessor._generate_recommendations: a comparison with a NaN mean
\* is False
_generate_recommendations(report) ==
    LET wellness == report.wellness_metrics
        learning == report.learning_metrics
        anxiety  == wellness.avg_anxiety_score
        quiz     == learning.avg_quiz_score
    IN  (IF anxiety.den > 0 /\ anxiety.num > 6 * anxiety.den
         THEN <<"Increase wellness support resources - high anxiety detected">>
         ELSE <<>>)
        \o (IF HighRiskShare(wellness.high_risk_percentage)
            THEN <<"Critical: Over 20% of sessions show high risk - immediate intervention needed">>
            ELSE <<>>)
        \o (IF quiz.den > 0 /\ quiz.num < 60 * quiz.den
            THEN <<"Review teaching methods - low quiz scores across sessions">>
            ELSE <<>>)
        \o PatternRecommendations(report.patterns)

\* indexing a table that has no such column raises KeyError: created_at
\* when a table with rows is cut to the window, course_id and student_id
\* with a class_id, student_id when the active students are counted
ReportRaises(class_id, time_window_days) ==
    \/ ~IsEmpty(wellness_sessions) /\ "created_at" \notin wellness_sessions.columns
    \/ ~IsEmpty(learning_sessions) /\ "created_at" \notin learning_sessions.columns
    \/ /\ class_id # None
       /\ \/ "course_id" \notin learning_sessions.columns
          \/ "student_id" \notin learning_sessions.columns
          \/ "student_id" \notin wellness_sessions.columns
    \/ /\ "student_id" \notin wellness_sessions.columns
       /\ ~IsEmpty(get_wellness_sessions(None, now - time_window_days * DAY, NoDate))

\* A frame in memory is [frame, stored]: its table, and whether a write into
\* it is a write into the table held in self.data.  Whether df[mask] returns
\* a view or a copy is left to pandas: the rows it takes are taken to share
\* the memory of their source.
\* self.data.get(table_name, pd.DataFrame())
DataGet(table) == [frame |-> table, stored |-> TRUE]

\* a slip that hands out the frame itself
Mutant_copy(df) == df

\* df.copy()
copy(df) == [frame |-> df.frame, stored |-> FALSE]

\* df_wellness['hour'] = pd.to_datetime(df_wellness['created_at']).dt.hour
HourAssigned(table) ==
    AssignColumn(table, "hour", "created_at",
                 LAMBDA t : IF t = NaNum THEN NaNum ELSE HourOf(t))

\* self.data['wellness_sessions'] after _detect_patterns_csv: the temporal
\* rule writes the hour into df_wellness, a copy of the sessions of the
\* report, themselves rows of the copy get_wellness_sessions took
DataAfterPatterns(wellness) ==
    LET taken       == copy(DataGet(wellness_sessions))
        sessions    == [frame |-> wellness, stored |-> taken.stored]
        df_wellness == copy(sessions)
    IN  IF /\ ~IsEmpty(wellness)
           /\ "created_at" \in wellness.columns
           /\ "anxiety_score" \in wellness.columns
           /\ df_wellness.stored
        THEN HourAssigned(wellness_sessions)
        ELSE wellness_sessions

\* CSVDataProcessor.generate_analytics_report: result.report is the report
\* returned and written to the report file
generate_analytics_report(class_id, time_window_days) ==
    LET wellness == ReportWellness(class_id, time_window_days)
        learning == ReportLearning(class_id, time_window_days)
        report ==
            [time_window_days |-> time_window_days,
             class_id |-> class_id,
             active_students |->
                 IF IsEmpty(wellness) THEN 0
                 ELSE Cardinality({wellness.rows[i]["student_id"] :
                                      i \in 1..Len(wellness.rows)}),
             wellness_metrics |-> _calculate_wellness_metrics(wellness),
             learning_metrics |-> _calculate_learning_metrics(learning),
             patterns |-> _detect_patterns_csv(wellness, learning)]
    IN  /\ result' =
              IF ReportRaises(class_id, time_window_days)
              THEN [op |-> "generate_analytics_report", class_id |-> class_id,
                    time_window_days |-> time_window_days, raised |-> TRUE]
              ELSE [op |-> "generate_analytics_report", class_id |-> class_id,
                    time_window_days |-> time_window_days, raised |-> FALSE,
                    report |-> report @@
                        [recommendations |-> _generate_recommendations(report)]]
        /\ wellness_sessions' =
              IF ReportRaises(class_id, time_window_days) THEN wellness_sessions
              ELSE DataAfterPatterns(wellness)
        /\ UNCHANGED <<actions, students, csv_files, writers, k_threshold,
                       K_ANONYMITY_THRESHOLD, now, learning_sessions,
                       WellnessSession, LearningSession, Pattern>>

\* the sessions stored in all tables
TotalSessions ==
    Len(wellness_sessions.rows) + Len(learning_sessions.rows)
        + Len(WellnessSession) + Len(LearningSession)

(***************************************************************************)
(* The state after construction: no CSV file yet, an empty database.       *)
(***************************************************************************)
InitStore ==
    /\ now = Epoch
    /\ wellness_sessions = EmptyDataFrame
    /\ learning_sessions = EmptyDataFrame
    /\ WellnessSession = <<>>
    /\ LearningSession = <<>>
    /\ Pattern = <<>>
    /\ students = EmptyDataFrame
    /\ actions = EmptyDataFrame
    /\ csv_files = <<>>
    /\ writers = <<>>
    /\ result = [op |-> "__init__"]

(***************************************************************************)
(* SpecAnon: the anonymised export and the suppression filter.  Every      *)
(* caller passes the same keys: all of them give a screener_type, or none. *)
(***************************************************************************)
AnonSessionData ==
    [student_id : {"STU001", "STU002"}, risk_level : {"L1", "L2"},
     screener_type : {"GAD-2", "PHQ-2"}]
    \cup [student_id : {"STU001"}, risk_level : {"L1", "L2"}]

\* the (start_date, end_date) arguments of an export
AnonWindows == {<<NoDate, NoDate>>, <<Epoch + 1, Epoch + 3>>}

InitAnon ==
    /\ InitStore
    /\ k_threshold \in KValues
    /\ K_ANONYMITY_THRESHOLD = DEFAULT_K

AnonAdd ==
    /\ Len(wellness_sessions.rows) < MaxAnonRows
    /\ \E session_data \in AnonSessionData :
          /\ wellness_sessions.columns # {} =>
                ("screener_type" \in wellness_sessions.columns
                    <=> "screener_type" \in DOMAIN session_data)
          /\ add_wellness_session(session_data, 1)

AnonExport ==
    \E w \in AnonWindows : export_wellness_sessions(w[1], w[2])

AnonApply == apply_k_anonymity_call

NextAnon == AnonAdd \/ AnonExport \/ AnonApply

SpecAnon == InitAnon /\ [][NextAnon]_vars

(***************************************************************************)
(* SpecHash: pseudonyms of identifiers of several lengths, called directly *)
(* and through the export.                                                 *)
(***************************************************************************)
HashSessionData == [student_id : Identifiers, risk_level : {"L1"}]

InitHash ==
    /\ InitStore
    /\ k_threshold \in KValues
    /\ K_ANONYMITY_THRESHOLD = DEFAULT_K

HashAdd ==
    /\ Len(wellness_sessions.rows) < MaxHashRows
    /\ \E session_data \in HashSessionData : add_wellness_session(session_data, 1)

HashCall == \E student_id \in Identifiers : hash_student_id_call(student_id)

HashExport == export_wellness_sessions(NoDate, NoDate)

NextHash == HashAdd \/ HashCall \/ HashExport

SpecHash == InitHash /\ [][NextHash]_vars

(***************************************************************************)
(* Claims on the suppression filter and the export.                        *)
(***************************************************************************)
\* the quasi-identifier columns of a table
QuasiIdentifiers(df) == {"risk_level", "screener_type"} \cap df.columns

\* the rows of df that agree with r on every quasi-identifier
JointGroupSize(df, r) ==
    Cardinality({i \in 1..Len(df.rows) :
                    \A qi \in QuasiIdentifiers(df) : df.rows[i][qi] = r[qi]})

\* the session_ids of the rows of a table
SessionIds(df) == {df.rows[i]["session_id"] : i \in 1..Len(df.rows)}

\* C2: _apply_k_anonymity returns no row of a group (the rows that share
\* risk_level, and screener_type when the column is present) that has fewer
\* than k rows in the input, and every row of each group that has at least k.
C2_SuppressionExact ==
    result.op = "_apply_k_anonymity" =>
        \A i \in 1..Len(wellness_sessions.rows) :
            LET r == wellness_sessions.rows[i]
            IN  (r["session_id"] \in SessionIds(result.once))
                    <=> JointGroupSize(wellness_sessions, r) >= k_threshold

\* C3: in the output of _apply_k_anonymity every risk_level that appears at
\* all appears in at least k rows, also when screener_type is filtered too.
C3_RiskGroupsAtLeastK ==
    result.op = "_apply_k_anonymity" =>
        \A i \in 1..Len(result.once.rows) :
            GroupSize(result.once, "risk_level", result.once.rows[i]["risk_level"])
                >= k_threshold

\* C7: applying _apply_k_anonymity to its own output returns that output.
C7_SuppressionIdempotent ==
    result.op = "_apply_k_anonymity" => result.twice.rows = result.once.rows

\* the table an export read: the sessions of its window
ExportSource == get_wellness_sessions(None, result.start_date, result.end_date)

\* C6: a written export has no student_id column, each of its rows carries
\* the pseudonym of the student_id of the session it came from, and no row of
\* a risk_level or screener_type group with fewer than k sessions in the
\* window is written.
C6_ExportAnonymised ==
    (result.op = "export_wellness_sessions" /\ result.path # "") =>
        /\ "student_id" \notin result.file.columns
        /\ \A i \in 1..Len(result.file.rows) :
              LET r == result.file.rows[i]
              IN  /\ "student_id" \notin DOMAIN r
                  /\ \E j \in 1..Len(ExportSource.rows) :
                        /\ ExportSource.rows[j]["session_id"] = r["session_id"]
                        /\ r["student_id_hash"] =
                              SubSeq(sha256_hexdigest(ExportSource.rows[j]["student_id"]), 1, 16)
                  /\ \A qi \in QuasiIdentifiers(ExportSource) :
                        GroupSize(ExportSource, qi, r[qi]) >= k_threshold

\* C6 witness: an export that wrote the sessions of two students and
\* suppressed a session of its window.
C6_Witness ==
    /\ result.op = "export_wellness_sessions"
    /\ result.path # ""
    /\ Len(result.file.rows) > 0
    /\ Len(result.file.rows) < Len(ExportSource.rows)
    /\ Len(ExportSource.rows) < Len(wellness_sessions.rows)
    /\ \E i, j \in 1..Len(result.file.rows) :
          result.file.rows[i]["student_id_hash"] # result.file.rows[j]["student_id_hash"]

DetectSessionFields ==
    {[student_id |-> st, mood_score |-> 5, anxiety_score |-> f[1], risk_level |-> f[2]] :
        st \in {"STU001"}, f \in {<<5, "L2">>, <<9, "L3">>}}

DetectLearningFields ==
    [student_id : {"STU001"}, course_id : {"C1"}, comprehension_level : {"low", "high"}]

InitDetect ==
    /\ InitStore
    /\ k_threshold = DEFAULT_K
    /\ K_ANONYMITY_THRESHOLD \in KValues

DetectCreateSession ==
    /\ TotalSessions < MaxSessions
    /\ \E fields \in DetectSessionFields : create_WellnessSession(fields)

DetectCreateLearning ==
    /\ TotalSessions < MaxSessions
    /\ \E fields \in DetectLearningFields : create_LearningSession(fields)

\* the clock jumps once
DetectAdvance ==
    /\ now = Epoch
    /\ advance_clock(ClockStep)

DetectRun ==
    /\ Len(Pattern) < MaxPatterns
    /\ \E class_id \in {None, "C1"}, time_window_days \in {7, 30} :
          detect_patterns(class_id, time_window_days)

DetectGenerate ==
    /\ Len(Pattern) < MaxPatterns
    /\ \E days \in {7} : generate_patterns(days)

NextDetect ==
    DetectCreateSession \/ DetectCreateLearning \/ DetectAdvance \/ DetectRun \/ DetectGenerate

SpecDetect == InitDetect /\ [][NextDetect]_vars

(***************************************************************************)
(* Claims on the risk rule.                                                *)
(***************************************************************************)
\* the Pattern rows the last call created
CreatedPatterns ==
    IF result.op = "detect_patterns" THEN result.patterns
    ELSE IF result.op = "generate_patterns"
         THEN SubSeq(Pattern, Len(Pattern) - result.patterns_created + 1, Len(Pattern))
         ELSE <<>>

\* the wellness sessions in the window of the last detection call
WindowSessions == FilterSince(WellnessSession, now - result.time_window_days * DAY)

\* the risk patterns of a level among the created ones
RiskPatternsOf(risk_level) ==
    SelectSeq(CreatedPatterns,
              LAMBDA p : p.pattern_type = "risk" /\ p.pattern_data.risk_level = risk_level)

\* C10: the risk rule of detect_patterns and of generate_patterns creates
\* exactly one risk Pattern for each risk level with at least k sessions in
\* the window and none for another level, with k_count the size of the group
\* and severity high for L3, medium otherwise.
C10_RiskRule ==
    result.op \in {"detect_patterns", "generate_patterns"} =>
        \A risk_level \in {"L1", "L2", "L3"} :
            LET count == RiskCount(WindowSessions, risk_level)
                made  == RiskPatternsOf(risk_level)
            IN  IF count >= K_ANONYMITY_THRESHOLD
                THEN /\ Len(made) = 1
                     /\ made[1].k_count = count
                     /\ made[1].severity = (IF risk_level = "L3" THEN "high" ELSE "medium")
                ELSE Len(made) = 0

\* C10 witness: a run that created a high pattern for L3 while L2, present
\* in the window, stayed below k and got none.
C10_Witness ==
    /\ result.op \in {"detect_patterns", "generate_patterns"}
    /\ Len(RiskPatternsOf("L3")) = 1
    /\ RiskPatternsOf("L3")[1].severity = "high"
    /\ RiskCount(WindowSessions, "L2") > 0
    /\ Len(RiskPatternsOf("L2")) = 0
    /\ Len(WindowSessions) < Len(WellnessSession)

(***************************************************************************)
(* SpecPatterns: both pattern detectors.  The CSV processor is constructed *)
(* over a learning_sessions.csv written an hour earlier; wellness sessions *)
(* are added to the CSV store and created in the database.                 *)
(***************************************************************************)
LearningColumns ==
    {"session_id", "student_id", "course_id", "topic", "comprehension_level", "created_at"}

\* the rows of learning_sessions.csv: each course has its topic and student
LoadedLearningRows ==
    {[student_id |-> c[1], course_id |-> c[2], topic |-> c[3], comprehension_level |-> l] :
        c \in {<<"STU001", "C1", "algebra">>, <<"STU002", "C2", "calculus">>},
        l \in {"low", "high"}}

\* CSVDataProcessor._load_data on a file of these rows
LoadedLearning(file) ==
    IF Len(file) = 0 THEN EmptyDataFrame
    ELSE [columns |-> LearningColumns,
          rows |-> [i \in 1..Len(file) |->
                      [c \in LearningColumns |->
                          IF c = "session_id" THEN "LS" \o Pad3(i)
                          ELSE IF c = "created_at" THEN Epoch - 60
                          ELSE file[i][c]]]]

PatSessionData ==
    {[student_id |-> st, anxiety_score |-> f[1], risk_level |-> f[2]] :
        st \in {"STU001", "STU002"}, f \in {<<5, "L2">>, <<9, "L3">>}}

InitPatterns ==
    /\ now = Epoch
    /\ wellness_sessions = EmptyDataFrame
    /\ \E n \in 0..MaxSessions : \E file \in [1..n -> LoadedLearningRows] :
          learning_sessions = LoadedLearning(file)
    /\ WellnessSession = <<>>
    /\ LearningSession = <<>>
    /\ Pattern = <<>>
    /\ students = EmptyDataFrame
    /\ actions = EmptyDataFrame
    /\ csv_files = <<>>
    /\ writers = <<>>
    /\ result = [op |-> "__init__"]
    /\ k_threshold \in KValues
    /\ K_ANONYMITY_THRESHOLD = k_threshold

PatAdd ==
    /\ TotalSessions < MaxSessions
    /\ \E session_data \in PatSessionData : add_wellness_session(session_data, 0)

PatReport ==
    \E class_id \in {None, "C1"} : generate_analytics_report(class_id, 7)

PatCreateSession == DetectCreateSession

PatCreateLearning == DetectCreateLearning

PatDetect ==
    /\ Len(Pattern) < MaxPatterns
    /\ \E class_id \in {None, "C1"} : detect_patterns(class_id, 7)

NextPatterns ==
    PatAdd \/ PatReport \/ PatCreateSession \/ PatCreateLearning \/ PatDetect

SpecPatterns == InitPatterns /\ [][NextPatterns]_vars

(***************************************************************************)
(* Claims on the patterns and the report.                                  *)
(***************************************************************************)
\* a report was returned
Reported == result.op = "generate_analytics_report" /\ ~result.raised

\* C1: every pattern of a report and every Pattern row has k_count at least
\* the k-anonymity threshold.
C1_KCountAtLeastK ==
    /\ \A i \in 1..Len(Pattern) : Pattern[i].k_count >= K_ANONYMITY_THRESHOLD
    /\ result.op = "detect_patterns" =>
          \A i \in 1..Len(result.patterns) :
              result.patterns[i].k_count >= K_ANONYMITY_THRESHOLD
    /\ Reported =>
          \A i \in 1..Len(result.report.patterns) :
              result.report.patterns[i].k_count >= k_threshold

\* C1 witness: a report with a pattern, while the database holds a Pattern.
C1_Witness ==
    /\ Reported
    /\ Len(result.report.patterns) > 0
    /\ Len(Pattern) > 0

\* the students of the rows of a table
Students(df) == {df.rows[i]["student_id"] : i \in 1..Len(df.rows)}

\* the sessions a report was made of
ReportedWellness == ReportWellness(result.class_id, result.time_window_days)
ReportedLearning == ReportLearning(result.class_id, result.time_window_days)

\* C4: the group of every emitted pattern holds the sessions of at least k
\* different students.
C4_PatternsCoverKStudents ==
    /\ Reported =>
          \A i \in 1..Len(result.report.patterns) :
              LET p == result.report.patterns[i]
              IN  /\ p.type = "temporal" =>
                        \A h \in 0..23 :
                            p.description = "High anxiety at hour " \o ToString(h) =>
                                Cardinality(Students(HourRows(ReportedWellness, h)))
                                    >= k_threshold
                  /\ p.type = "academic" =>
                        Cardinality(Students(Filter(ReportedLearning,
                            LAMBDA r : r["comprehension_level"] = "low"))) >= k_threshold
    /\ result.op \in {"detect_patterns", "generate_patterns"} =>
          \A i \in 1..Len(CreatedPatterns) :
              LET p == CreatedPatterns[i]
              IN  p.pattern_type = "risk" =>
                      Cardinality({WindowSessions[j].student_id :
                          j \in {n \in 1..Len(WindowSessions) :
                                    WindowSessions[n].risk_level = p.pattern_data.risk_level}})
                          >= K_ANONYMITY_THRESHOLD

\* C5: every per-group figure of a report (the counts of risk_distribution
\* and comprehension_distribution, the per-topic counts of an academic
\* pattern, the sessions behind high_risk_percentage) covers at least k
\* sessions.
C5_ReportGroupsAtLeastK ==
    Reported =>
        LET wm == result.report.wellness_metrics
            lm == result.report.learning_metrics
        IN  /\ \A v \in DOMAIN wm.risk_distribution :
                  wm.risk_distribution[v] >= k_threshold
            /\ \A v \in DOMAIN lm.comprehension_distribution :
                  lm.comprehension_distribution[v] >= k_threshold
            /\ wm.high_risk_percentage.num > 0 =>
                  wm.high_risk_percentage.num >= 100 * k_threshold
            /\ \A i \in 1..Len(result.report.patterns) :
                  result.report.patterns[i].type = "academic" =>
                      \A t \in DOMAIN result.report.patterns[i].topics :
                          result.report.patterns[i].topics[t] >= k_threshold

(***************************************************************************)
(* CSVDataProcessor.get_student_risk_assessment.                           *)
(***************************************************************************)
MaxTrendRows == 6       \* rows of the table in SpecTrend
MaxBackdated == 1       \* sessions of SpecTrend added with an earlier created_at
TrendScores == {1, 2, 3}    \* the anxiety scores of SpecTrend


\* float(total) / count for every mean of the model (computed once)
FloatQuotient ==
    [count \in 1..MaxTrendRows |->
        [total \in count..(Largest(TrendScores) * count) |-> FloatDivide(total, count)]]

\* df[col].mean() as the float64 pandas returns: NaN values are skipped
float_mean(df, col) ==
    LET values == ColumnValues(df, col)
    IN  IF Len(values) = 0 THEN FloatNaN
        ELSE FloatQuotient[Len(values)][SumSeq(values)]

\* rows ordered by col, NaT last; the timestamps of SpecTrend are distinct
RECURSIVE SortRows(_, _)
SortRows(rows, col) ==
    IF rows = <<>> THEN <<>>
    ELSE LET init == SortRows(SubSeq(rows, 1, Len(rows) - 1), col)
             last == rows[Len(rows)]
             Before(r) == r[col] # NaNum /\ (last[col] = NaNum \/ r[col] <= last[col])
             n    == Cardinality({i \in 1..Len(init) : Before(init[i])})
         IN  SubSeq(init, 1, n) \o <<last>> \o SubSeq(init, n + 1, Len(init))

\* df.sort_values(col)
sort_values(df, col) == [columns |-> df.columns, rows |-> SortRows(df.rows, col)]

\* df.head(n) for n >= 1
head(df, n) == [columns |-> df.columns, rows |-> SubSeq(df.rows, 1, n)]

\* a slip that lets the last rows begin one row early
Mutant_tail(df, n) ==
    [columns |-> df.columns,
     rows    |-> SubSeq(df.rows, Len(df.rows) - n, Len(df.rows))]

\* df.tail(n) for n >= 1
tail(df, n) ==
    [columns |-> df.columns,
     rows    |-> SubSeq(df.rows, Len(df.rows) - n + 1, Len(df.rows))]

\* CSVDataProcessor._get_student_recommendations
_get_student_recommendations(latest_session, trend) ==
    (IF latest_session["risk_level"] = "L3"
     THEN <<"Seek immediate counseling support",
            "Take a break from academic work",
            "Contact crisis support if needed">>
     ELSE IF latest_session["risk_level"] = "L2"
     THEN <<"Practice stress management techniques",
            "Consider talking to a counselor",
            "Take regular breaks from studies">>
     ELSE <<"Continue current wellness practices",
            "Maintain healthy study schedule",
            "Stay connected with support network">>)
    \o (IF trend = "Worsening"
        THEN <<"Monitor symptoms closely and seek help if they worsen">>
        ELSE IF trend = "Improving"
        THEN <<"Keep up the good work with current coping strategies">>
        ELSE <<>>)

\* a slip that takes one session for enough to tell a trend
Mutant_TrendOf(sessions_sorted) ==
    IF Len(sessions_sorted.rows) >= 1 THEN "Stable" ELSE "Insufficient data"

\* the trend of the sorted sessions: avg_second > avg_first + 1 is
\* Worsening, avg_second < avg_first - 1 is Improving
TrendOf(sessions_sorted) ==
    LET n           == Len(sessions_sorted.rows)
        first_half  == head(sessions_sorted, n \div 2)
        second_half == tail(sessions_sorted, n \div 2)
        avg_first   == float_mean(first_half, "anxiety_score")
        avg_second  == float_mean(second_half, "anxiety_score")
    IN  IF n >= 2
        THEN IF FloatLess(FloatAdd(avg_first, 1), avg_second) THEN "Worsening"
             ELSE IF FloatLess(avg_second, FloatAdd(avg_first, 0 - 1)) THEN "Improving"
             ELSE "Stable"
        ELSE "Insufficient data"

\* the call raises KeyError when a column it reads is not in the table
get_student_risk_assessment(student_id, days_back) ==
    LET cutoff_date     == now - days_back * DAY
        sessions        == get_wellness_sessions(student_id, cutoff_date, NoDate)
        sessions_sorted == sort_values(sessions, "created_at")
        latest_session  == sessions_sorted.rows[Len(sessions_sorted.rows)]
        trend           == TrendOf(sessions_sorted)
        call == [op |-> "get_student_risk_assessment", student_id |-> student_id,
                 days_back |-> days_back]
    IN  /\ result' =
              IF IsEmpty(sessions)
              THEN call @@ [raised |-> FALSE, risk_level |-> "Unknown",
                            trend |-> "No data", last_session |-> NoDate,
                            recommendations |-> <<"Complete wellness screening">>]
              ELSE IF ~({"created_at", "risk_level", "mood_score", "anxiety_score"}
                            \subseteq sessions.columns)
              THEN call @@ [raised |-> TRUE]
              ELSE call @@ [raised |-> FALSE,
                            risk_level |-> latest_session["risk_level"],
                            current_mood |-> latest_session["mood_score"],
                            current_anxiety |-> latest_session["anxiety_score"],
                            trend |-> trend,
                            last_session |-> latest_session["created_at"],
                            session_count |-> Len(sessions.rows),
                            recommendations |->
                                _get_student_recommendations(latest_session, trend)]
        /\ UNCHANGED <<actions, students, csv_files, writers, k_threshold,
                       K_ANONYMITY_THRESHOLD, now, wellness_sessions,
                       learning_sessions, WellnessSession, LearningSession, Pattern>>

(***************************************************************************)
(* SpecTrend: sessions of one student, some of them recorded with an       *)
(* earlier created_at, and the risk assessment over one day or thirty.     *)
(***************************************************************************)
TrendSessionData ==
    [student_id : {"STU001"}, mood_score : {5}, anxiety_score : TrendScores,
     risk_level : {"L2"}]

\* the rows added with a created_at of their own
Backdated ==
    {i \in 1..Len(wellness_sessions.rows) : wellness_sessions.rows[i]["created_at"] < Epoch}

InitTrend ==
    /\ InitStore
    /\ k_threshold = DEFAULT_K
    /\ K_ANONYMITY_THRESHOLD = DEFAULT_K

TrendAdd ==
    /\ Len(wellness_sessions.rows) < MaxTrendRows
    /\ \E session_data \in TrendSessionData : add_wellness_session(session_data, 1)

TrendAddBackdated ==
    /\ Len(wellness_sessions.rows) < MaxTrendRows
    /\ Cardinality(Backdated) < MaxBackdated
    /\ \E session_data \in TrendSessionData :
          add_wellness_session(session_data @@ [created_at |-> now - DAY], 1)

TrendAssess ==
    \E days_back \in {1, 30} : get_student_risk_assessment("STU001", days_back)

NextTrend == TrendAdd \/ TrendAddBackdated \/ TrendAssess

SpecTrend == InitTrend /\ [][NextTrend]_vars

(***************************************************************************)
(* Claims on the risk assessment.                                          *)
(***************************************************************************)
Assessed == result.op = "get_student_risk_assessment" /\ ~result.raised

\* the sessions of the assessed student in the window, as indexes of the table
InWindow ==
    {i \in 1..Len(wellness_sessions.rows) :
        /\ wellness_sessions.rows[i]["student_id"] = result.student_id
        /\ wellness_sessions.rows[i]["created_at"] >= now - result.days_back * DAY}

\* the session of the window with rank - 1 sessions before it
Ranked(rank) ==
    CHOOSE i \in InWindow :
        Cardinality({j \in InWindow : wellness_sessions.rows[j]["created_at"]
                                        < wellness_sessions.rows[i]["created_at"]}) = rank - 1

\* the anxiety scores of the window in chronological order
Chronological ==
    [rank \in 1..Cardinality(InWindow) |-> wellness_sessions.rows[Ranked(rank)]["anxiety_score"]]

FirstSum == SumSeq(SubSeq(Chronological, 1, Len(Chronological) \div 2))
SecondSum ==
    SumSeq(SubSeq(Chronological, Len(Chronological) - (Len(Chronological) \div 2) + 1,
                  Len(Chronological)))

\* C9: for n >= 2 sessions in the window, the trend is Worsening exactly when
\* the mean anxiety of the last floor(n/2) sessions exceeds the mean of the
\* first floor(n/2) by more than 1, Improving exactly when it is lower by
\* more than 1, and Stable otherwise: a difference of exactly 1 is Stable.
\* (The means have the same number of terms, so they differ by more than 1
\* exactly when the sums differ by more than that number.)
C9_TrendByHalves ==
    (Assessed /\ Cardinality(InWindow) >= 2) =>
        LET half == Cardinality(InWindow) \div 2
        IN  result.trend = IF SecondSum > FirstSum + half THEN "Worsening"
                           ELSE IF SecondSum < FirstSum - half THEN "Improving"
                           ELSE "Stable"

(***************************************************************************)
(* Claims on the detection rules (SpecPatterns).                           *)
(***************************************************************************)
\* the patterns of a type in a report
ReportPatterns(type) ==
    SelectSeq(result.report.patterns, LAMBDA p : p.type = type)

\* the Pattern rows of a type the last detection call created
CreatedOfType(pattern_type) ==
    SelectSeq(CreatedPatterns, LAMBDA p : p.pattern_type = pattern_type)

\* the severity the temporal rule is to give a group of count scores that
\* sum to total: none when the mean is at most 6
ClaimedTemporalSeverity(total, count) ==
    IF total >= 8 * count THEN "high" ELSE "medium"

\* C11: for every hour of the day, the temporal rule emits exactly one
\* pattern when the hour group has at least k sessions and a mean anxiety
\* above 6, with k_count the size of the group and severity medium for a mean
\* below 8 and high for a mean of 8 or more; it emits nothing for another
\* hour.  Stated of the report and of detect_patterns.
C11_TemporalRule ==
    /\ Reported =>
          \A h \in 0..23 :
              LET scores == ColumnValues(HourRows(ReportedWellness, h), "anxiety_score")
                  made   == SelectSeq(ReportPatterns("temporal"),
                                LAMBDA p : p.description = "High anxiety at hour " \o ToString(h))
              IN  IF Len(scores) >= k_threshold /\ SumSeq(scores) > 6 * Len(scores)
                  THEN /\ Len(made) = 1
                       /\ made[1].k_count = Len(scores)
                       /\ made[1].severity =
                              ClaimedTemporalSeverity(SumSeq(scores), Len(scores))
                  ELSE Len(made) = 0
    /\ result.op = "detect_patterns" =>
          \A h \in 0..23 :
              LET group == HourGroup(WindowSessions, h)
                  total == AnxietySum(group)
                  made  == SelectSeq(CreatedOfType("temporal"),
                                LAMBDA p : p.pattern_data.hour = h)
              IN  IF Len(group) >= K_ANONYMITY_THRESHOLD /\ total > 6 * Len(group)
                  THEN /\ Len(made) = 1
                       /\ made[1].k_count = Len(group)
                       /\ made[1].severity = ClaimedTemporalSeverity(total, Len(group))
                  ELSE Len(made) = 0

\* C12: an academic pattern has severity high exactly when its group of
\* low-comprehension sessions is larger than twice the threshold, and medium
\* otherwise.  Stated of the report and of detect_patterns.
C12_AcademicSeverity ==
    /\ Reported =>
          \A i \in 1..Len(ReportPatterns("academic")) :
              LET p == ReportPatterns("academic")[i]
              IN  p.severity = IF p.k_count > 2 * k_threshold THEN "high" ELSE "medium"
    /\ result.op = "detect_patterns" =>
          \A i \in 1..Len(CreatedOfType("academic")) :
              LET p == CreatedOfType("academic")[i]
              IN  p.severity = IF p.k_count > 2 * K_ANONYMITY_THRESHOLD
                               THEN "high" ELSE "medium"

\* the low-comprehension learning sessions of a class in the database,
\* created in the window of the last detection call
ScopedLowSessions(class_id) ==
    SelectSeq(FilterSince(LearningSession, now - result.time_window_days * DAY),
              LAMBDA s : s.course_id = class_id /\ s.comprehension_level = "low")

\* C13: an academic pattern is emitted only for a call that names a class,
\* and its k_count is the number of low-comprehension learning sessions of
\* that class in the window of the call.
C13_AcademicScope ==
    /\ Reported =>
          \A i \in 1..Len(ReportPatterns("academic")) :
              /\ result.class_id # None
              /\ ReportPatterns("academic")[i].k_count =
                    Len(Filter(ReportedLearning,
                               LAMBDA r : r["comprehension_level"] = "low").rows)
    /\ result.op = "detect_patterns" =>
          \A i \in 1..Len(CreatedOfType("academic")) :
              /\ result.class_id # None
              /\ CreatedOfType("academic")[i].k_count =
                    Len(ScopedLowSessions(result.class_id))

\* C14: for every risk level with at least k wellness sessions in the window
\* of a report, the patterns of the report hold a risk pattern of that level.
C14_ReportHasRiskPatterns ==
    Reported =>
        \A risk_level \in {"L1", "L2", "L3"} :
            (/\ "risk_level" \in ReportedWellness.columns
             /\ GroupSize(ReportedWellness, "risk_level", risk_level) >= k_threshold)
            => \E i \in 1..Len(result.report.patterns) :
                  /\ result.report.patterns[i].type = "risk"
                  /\ "risk_level" \in DOMAIN result.report.patterns[i]
                  /\ result.report.patterns[i].risk_level = risk_level

\* C15: over a store without a wellness and without a learning session,
\* generate_analytics_report raises nothing and returns a report with
\* wellness_metrics.total_sessions 0 and no pattern, with or without a class.
C15_EmptyStoreReport ==
    (/\ result.op = "generate_analytics_report"
     /\ Len(wellness_sessions.rows) = 0
     /\ Len(learning_sessions.rows) = 0)
    => /\ ~result.raised
       /\ result.report.wellness_metrics.total_sessions = 0
       /\ result.report.patterns = <<>>

(***************************************************************************)
(* SpecAssess: the risk assessment of STU001 over the sessions of two      *)
(* students, recorded now or a day earlier.                                *)
(***************************************************************************)
MaxAssessRows == 3      \* rows of the table in SpecAssess

AssessSessionData ==
    [student_id : {"STU001", "STU002"}, mood_score : {5}, anxiety_score : TrendScores,
     risk_level : {"L2"}]

AssessAdd ==
    /\ Len(wellness_sessions.rows) < MaxAssessRows
    /\ \E session_data \in AssessSessionData : add_wellness_session(session_data, 1)

AssessAddBackdated ==
    /\ Len(wellness_sessions.rows) < MaxAssessRows
    /\ \E session_data \in AssessSessionData :
          add_wellness_session(session_data @@ [created_at |-> now - DAY], 1)

AssessCall ==
    \E days_back \in {1, 30} : get_student_risk_assessment("STU001", days_back)

NextAssess == AssessAdd \/ AssessAddBackdated \/ AssessCall

SpecAssess == InitTrend /\ [][NextAssess]_vars

\* C16: the assessment has risk_level Unknown, trend No data and no last
\* session exactly when the student has no session in the window, and trend
\* Insufficient data exactly when the student has exactly one.
C16_NoDataAndInsufficient ==
    Assessed =>
        /\ (result.risk_level = "Unknown") <=> (Cardinality(InWindow) = 0)
        /\ (result.trend = "No data") <=> (Cardinality(InWindow) = 0)
        /\ (result.last_session = NoDate) <=> (Cardinality(InWindow) = 0)
        /\ (result.trend = "Insufficient data") <=> (Cardinality(InWindow) = 1)

\* C16 witness: an assessment over one session in the window, while the table
\* holds another session of the student outside it and one of another student.
C16_Witness ==
    /\ Assessed
    /\ Cardinality(InWindow) = 1
    /\ result.trend = "Insufficient data"
    /\ \E i, j \in 1..Len(wellness_sessions.rows) :
          /\ i \notin InWindow
          /\ wellness_sessions.rows[i]["student_id"] = result.student_id
          /\ wellness_sessions.rows[j]["student_id"] # result.student_id

(***************************************************************************)
(* C18 (SpecAnon): the timestamps _apply_k_anonymity releases.             *)
(***************************************************************************)
\* C18: every row _apply_k_anonymity returns is a row of its input with
\* created_at replaced by the start of the hour that holds it, and every
\* other column unchanged.
C18_TimestampsTruncated ==
    result.op = "_apply_k_anonymity" =>
        \A i \in 1..Len(result.once.rows) :
            LET r == result.once.rows[i]
            IN  \E j \in 1..Len(wellness_sessions.rows) :
                    LET src == wellness_sessions.rows[j]
                    IN  /\ DOMAIN r = DOMAIN src
                        /\ \A c \in DOMAIN r \ {"created_at"} : r[c] = src[c]
                        /\ r["created_at"] % 60 = 0
                        /\ r["created_at"] <= src["created_at"]
                        /\ src["created_at"] < r["created_at"] + 60

\* C18 witness: a call that released rows whose created_at was not on the hour.
C18_Witness ==
    /\ result.op = "_apply_k_anonymity"
    /\ Len(result.once.rows) >= 2
    /\ \A j \in 1..Len(wellness_sessions.rows) :
          wellness_sessions.rows[j]["created_at"] % 60 # 0

(***************************************************************************)
(* SpecFewer: the suppression filter and the detector over few sessions:   *)
(* CSV sessions, database sessions created before or after a jump of the   *)
(* clock, learning sessions.                                               *)
(***************************************************************************)
FewerSessionData == [student_id : {"STU001"}, risk_level : {"L1", "L2"}]

InitFewer ==
    /\ InitStore
    /\ k_threshold \in KValues
    /\ K_ANONYMITY_THRESHOLD = k_threshold

FewerAdd ==
    /\ TotalSessions < MaxSessions
    /\ \E session_data \in FewerSessionData : add_wellness_session(session_data, 0)

FewerApply == apply_k_anonymity_call

FewerCreateSession == DetectCreateSession

FewerCreateLearning == DetectCreateLearning

FewerAdvance == DetectAdvance

FewerDetect ==
    /\ Len(Pattern) < MaxPatterns
    /\ \E class_id \in {None, "C1"} : detect_patterns(class_id, 7)

NextFewer ==
    \/ FewerAdd
    \/ FewerApply
    \/ FewerCreateSession
    \/ FewerCreateLearning
    \/ FewerAdvance
    \/ FewerDetect

SpecFewer == InitFewer /\ [][NextFewer]_vars

\* C17: _apply_k_anonymity returns the empty table for an input of fewer than
\* k rows, and detect_patterns returns no pattern (the patterns it returns
\* are those it stores) when fewer than k wellness sessions are in its window.
C17_FewerThanK ==
    /\ (result.op = "_apply_k_anonymity" /\ Len(wellness_sessions.rows) < k_threshold)
          => result.once = EmptyDataFrame
    /\ (result.op = "detect_patterns" /\ Len(WindowSessions) < K_ANONYMITY_THRESHOLD)
          => result.patterns = <<>>

\* C17 witness: a detection with a class over a window that holds a session
\* but fewer than k, while k sessions are stored and k learning sessions of
\* low comprehension are recent.
C17_Witness ==
    /\ result.op = "detect_patterns"
    /\ result.class_id # None
    /\ Len(WindowSessions) > 0
    /\ Len(WindowSessions) < K_ANONYMITY_THRESHOLD
    /\ Len(WellnessSession) >= K_ANONYMITY_THRESHOLD
    /\ Len(SelectSeq(FilterSince(LearningSession, now - 7 * DAY),
                     LAMBDA s : s.comprehension_level = "low")) >= K_ANONYMITY_THRESHOLD
    /\ result.patterns = <<>>

(***************************************************************************)
(* SpecColumns: the processor constructed over a wellness_sessions.csv and *)
(* a learning_sessions.csv written an hour earlier, either of which may    *)
(* lack a column; sessions are added and reports generated.                *)
(***************************************************************************)
WellnessColumns ==
    {"session_id", "student_id", "anxiety_score", "risk_level", "created_at"}

LoadedWellnessRows ==
    {[student_id |-> "STU001", anxiety_score |-> f[1], risk_level |-> f[2]] :
        f \in {<<5, "L2">>, <<9, "L3">>}}

\* CSVDataProcessor._load_data on a file of these rows
LoadedWellness(file) ==
    IF Len(file) = 0 THEN EmptyDataFrame
    ELSE [columns |-> WellnessColumns,
          rows |-> [i \in 1..Len(file) |->
                      [c \in WellnessColumns |->
                          IF c = "session_id" THEN "WS" \o Pad3(i)
                          ELSE IF c = "created_at" THEN Epoch - 60
                          ELSE file[i][c]]]]

\* the table of a file written without one column (None: with all of them)
Without(df, col) == IF col = None \/ IsEmpty(df) THEN df ELSE DropColumn(df, col)

InitColumns ==
    /\ now = Epoch
    /\ \E n \in 0..MaxColumnRows : \E file \in [1..n -> LoadedWellnessRows] :
          \E col \in {None, "created_at", "anxiety_score"} :
              wellness_sessions = Without(LoadedWellness(file), col)
    /\ \E n \in 0..MaxColumnRows : \E file \in [1..n -> LoadedLearningRows] :
          \E col \in {None, "comprehension_level"} :
              learning_sessions = Without(LoadedLearning(file), col)
    /\ WellnessSession = <<>>
    /\ LearningSession = <<>>
    /\ Pattern = <<>>
    /\ students = EmptyDataFrame
    /\ actions = EmptyDataFrame
    /\ csv_files = <<>>
    /\ writers = <<>>
    /\ result = [op |-> "__init__"]
    /\ k_threshold \in KValues
    /\ K_ANONYMITY_THRESHOLD = DEFAULT_K

ColumnsAdd ==
    /\ Len(wellness_sessions.rows) < MaxColumnRows
    /\ \E session_data \in LoadedWellnessRows : add_wellness_session(session_data, 0)

ColumnsReport ==
    \E class_id \in {None, "C1"} : generate_analytics_report(class_id, 7)

NextColumns == ColumnsAdd \/ ColumnsReport

SpecColumns == InitColumns /\ [][NextColumns]_vars

\* the columns a rule reads are in the table
HasColumns(df, cols) == IsEmpty(df) \/ cols \subseteq df.columns

\* C19: when a table lacks a column a rule reads (created_at or anxiety_score
\* for the temporal rule, comprehension_level for the academic rule), report
\* generation raises nothing, that rule emits nothing and the other rule
\* emits the patterns of its own table.
C19_MissingColumnSkipsRule ==
    (/\ result.op = "generate_analytics_report"
     /\ result.class_id = None
     /\ \/ ~HasColumns(wellness_sessions, {"created_at", "anxiety_score"})
        \/ ~HasColumns(learning_sessions, {"comprehension_level"}))
    => /\ ~result.raised
       /\ ReportPatterns("temporal") =
             IF HasColumns(wellness_sessions, {"created_at", "anxiety_score"})
             THEN TemporalPatternsCsv(ReportedWellness) ELSE <<>>
       /\ ReportPatterns("academic") =
             IF HasColumns(learning_sessions, {"comprehension_level"})
             THEN AcademicPatternsCsv(ReportedLearning) ELSE <<>>

(***************************************************************************)
(* SpecShare: wellness sessions of low and of high risk, recorded now or   *)
(* eight days earlier, and the report over a week or a month.              *)
(***************************************************************************)
ShareSessionData ==
    [student_id : {"STU001"}, mood_score : {5}, anxiety_score : {5},
     risk_level : {"L1", "L3"}]

ShareAdd ==
    /\ Len(wellness_sessions.rows) < MaxShareRows
    /\ \E session_data \in ShareSessionData : add_wellness_session(session_data, 0)

ShareAddBackdated ==
    /\ Len(wellness_sessions.rows) < MaxShareRows
    /\ \E session_data \in ShareSessionData :
          add_wellness_session(session_data @@ [created_at |-> now - 8 * DAY], 0)

ShareReport ==
    \E time_window_days \in {7, 30} : generate_analytics_report(None, time_window_days)

NextShare == ShareAdd \/ ShareAddBackdated \/ ShareReport

SpecShare == InitTrend /\ [][NextShare]_vars

\* the recommendation of _generate_recommendations for a high share
Critical ==
    "Critical: Over 20% of sessions show high risk - immediate intervention needed"

\* the number of L3 sessions among the wellness sessions of the report
ReportedHighRisk == GroupSize(ReportedWellness, "risk_level", "L3")

\* C20: a report recommends the Critical intervention exactly when more
\* than 20% of the wellness sessions of its window are L3 sessions; a share
\* of exactly 20% gives no such recommendation.
C20_CriticalAboveTwentyPercent ==
    Reported =>
        ((\E i \in 1..Len(result.report.recommendations) :
              result.report.recommendations[i] = Critical)
         <=> 100 * ReportedHighRisk > 20 * Len(ReportedWellness.rows))

\* C20 witness: a report over five sessions of its window, one of them L3
\* (a share of exactly 20%), without the Critical recommendation.
C20_Witness ==
    /\ Reported
    /\ Len(ReportedWellness.rows) = 5
    /\ ReportedHighRisk = 1
    /\ \A i \in 1..Len(result.report.recommendations) :
          result.report.recommendations[i] # Critical

(***************************************************************************)
(* The patterns table beside the detectors: Pattern.objects.create called  *)
(* directly, the Pattern admin (core/admin.py, PatternAdmin) and the       *)
(* cleanup_old_data command.                                               *)
(***************************************************************************)
MIN_K_COUNT == 5            \* MinValueValidator(5) of Pattern.k_count
DATA_RETENTION_DAYS == 90   \* settings.DATA_RETENTION_DAYS
MaxAuditSessions == 5       \* sessions of SpecAudit
MaxAuditPatterns == 2       \* patterns of SpecAudit

\* Pattern.objects.create(**fields): Model.save() runs no validator and the
\* table has no check constraint, so the row is inserted whatever k_count is
create_Pattern(fields) ==
    /\ Pattern' = Append(Pattern, NewPattern(fields))
    /\ result' = [op |-> "Pattern.objects.create", k_count |-> fields.k_count,
                  raised |-> FALSE]
    /\ UNCHANGED <<actions, students, csv_files, writers, k_threshold,
                   K_ANONYMITY_THRESHOLD, now, wellness_sessions,
                   learning_sessions, WellnessSession, LearningSession>>

\* the fields of the change form of PatternAdmin: those of the model that are
\* neither readonly_fields nor editable=False
PatternAdminFields == {"pattern_type", "severity", "class_id", "time_window_days"}

\* PatternAdmin change view, POST: has_change_permission is not overridden,
\* so a staff user with the change permission saves the form
PatternAdmin_change(i, form) ==
    /\ i \in 1..Len(Pattern)
    /\ DOMAIN form \subseteq PatternAdminFields
    /\ Pattern' = [Pattern EXCEPT ![i] =
                      [f \in DOMAIN Pattern[i] |->
                          IF f \in DOMAIN form THEN form[f] ELSE Pattern[i][f]]]
    /\ result' = [op |-> "PatternAdmin.change", status |-> 302]
    /\ UNCHANGED <<actions, students, csv_files, writers, k_threshold,
                   K_ANONYMITY_THRESHOLD, now, wellness_sessions,
                   learning_sessions, WellnessSession, LearningSession>>

\* PatternAdmin delete view and add view: has_delete_permission and
\* has_add_permission return False, the request is refused
PatternAdmin_refused(view) ==
    /\ result' = [op |-> "PatternAdmin." \o view, status |-> 403]
    /\ UNCHANGED <<actions, students, csv_files, writers, k_threshold,
                   K_ANONYMITY_THRESHOLD, now, wellness_sessions,
                   learning_sessions, WellnessSession, LearningSession, Pattern>>

\* cleanup_old_data, Command.handle: the wellness sessions created before the
\* cutoff are deleted
cleanup_old_data ==
    LET cutoff_date == now - DATA_RETENTION_DAYS * DAY
        Kept(r) == ~(r.created_at < cutoff_date)
    IN  /\ WellnessSession' = SelectSeq(WellnessSession, Kept)
        /\ result' = [op |-> "cleanup_old_data",
                      count |-> Len(WellnessSession) - Len(SelectSeq(WellnessSession, Kept))]
        /\ UNCHANGED <<actions, students, csv_files, writers, k_threshold,
                       K_ANONYMITY_THRESHOLD, now, wellness_sessions,
                       learning_sessions, LearningSession, Pattern>>

(***************************************************************************)
(* SpecAudit: sessions of high risk are created, the clock jumps once past *)
(* the retention period, patterns are detected, generated and created      *)
(* directly, the admin is used and old sessions are cleaned up.            *)
(***************************************************************************)
AuditSessionFields ==
    [student_id : {"STU001"}, mood_score : {5}, anxiety_score : {9}, risk_level : {"L3"}]

\* the keyword arguments of test_k_anonymity_in_patterns, with a k_count
\* below or at the minimum
AuditPatternFields ==
    [pattern_type : {"test"}, k_count : {3, MIN_K_COUNT}, pattern_data : {<<>>},
     severity : {"low"}, recommended_actions : {<<>>}]

AuditCreateSession ==
    /\ Len(WellnessSession) < MaxAuditSessions
    /\ \E fields \in AuditSessionFields : create_WellnessSession(fields)

AuditAdvance ==
    /\ now = Epoch
    /\ advance_clock((DATA_RETENTION_DAYS + 1) * DAY)

AuditCreatePattern ==
    /\ Len(Pattern) < MaxAuditPatterns
    /\ \E fields \in AuditPatternFields : create_Pattern(fields)

AuditDetect ==
    /\ Len(Pattern) < MaxAuditPatterns
    /\ detect_patterns(None, 7)

AuditGenerate ==
    /\ Len(Pattern) < MaxAuditPatterns
    /\ generate_patterns(7)

AuditAdminChange ==
    \E i \in 1..Len(Pattern), severity \in {"low", "high"} :
        PatternAdmin_change(i, [severity |-> severity])

AuditAdminRefused == \E view \in {"delete", "add"} : PatternAdmin_refused(view)

AuditCleanup == cleanup_old_data

NextAudit ==
    \/ AuditCreateSession \/ AuditAdvance \/ AuditCreatePattern \/ AuditDetect
    \/ AuditGenerate \/ AuditAdminChange \/ AuditAdminRefused \/ AuditCleanup

SpecAudit == InitTrend /\ [][NextAudit]_vars

\* C21: a Pattern created with a k_count below the minimum fails with an
\* error, and no pattern with such a k_count is stored.
C21_LowKCountRejected ==
    /\ (result.op = "Pattern.objects.create" /\ result.k_count < MIN_K_COUNT)
          => result.raised
    /\ \A i \in 1..Len(Pattern) : Pattern[i].k_count >= MIN_K_COUNT

\* C22: patterns are append-only: every step keeps each stored pattern, with
\* every field as it was.
C22_PatternsAppendOnly ==
    [][/\ Len(Pattern') >= Len(Pattern)
       /\ \A i \in 1..Len(Pattern) : Pattern'[i] = Pattern[i]]_vars

(***************************************************************************)
(* The submissions that record or classify a wellness check: the check-in  *)
(* of StudentViewSet through WellnessSessionSerializer, the screening of   *)
(* ScreeningAPIView (api/serializers.py) and WellnessCheckView             *)
(* (wellness/views.py).  A score that is not stored (NULL) is NaNum.       *)
(***************************************************************************)
MaxIntakeRows == 2      \* sessions of all tables in SpecIntake

\* the risk level of WellnessSessionSerializer.create and of
\* ScreeningAPIView.post for a total
SerializerRisk(total) ==
    IF total <= 6 THEN "L1" ELSE IF total <= 10 THEN "L2" ELSE "L3"

\* the risk level of WellnessCheckView.post for a combined score
CheckViewRisk(combined_score) ==
    IF combined_score <= 6 THEN "L3" ELSE IF combined_score <= 10 THEN "L2" ELSE "L1"

\* validated_data.get(key, 5)
GetOr5(data, key) == IF key \in DOMAIN data THEN data[key] ELSE 5

\* serializer.is_valid(): the validators of the model fields, MinValueValidator(1)
\* and MaxValueValidator(10), run on the scores that are given
SerializerValid(data) ==
    \A key \in {"mood_score", "anxiety_score"} \cap DOMAIN data : data[key] \in 1..10

\* StudentViewSet.wellness_checkin: an invalid body is answered 400, a valid
\* one is saved through WellnessSessionSerializer.create
wellness_checkin(data) ==
    /\ IF SerializerValid(data)
       THEN /\ WellnessSession' = Append(WellnessSession,
                  [session_id    |-> "SESS" \o Pad3(Len(WellnessSession)),
                   student_id    |-> data.student_id,
                   mood_score    |-> IF "mood_score" \in DOMAIN data
                                     THEN data.mood_score ELSE NaNum,
                   anxiety_score |-> IF "anxiety_score" \in DOMAIN data
                                     THEN data.anxiety_score ELSE NaNum,
                   risk_level    |-> SerializerRisk(GetOr5(data, "mood_score")
                                                    + GetOr5(data, "anxiety_score")),
                   created_at    |-> now])
            /\ result' = [op |-> "wellness_checkin", status |-> 200, data |-> data]
       ELSE /\ WellnessSession' = WellnessSession
            /\ result' = [op |-> "wellness_checkin", status |-> 400, data |-> data]
    /\ UNCHANGED <<actions, students, csv_files, writers, k_threshold,
                   K_ANONYMITY_THRESHOLD, now, wellness_sessions,
                   learning_sessions, LearningSession, Pattern>>

\* ScreeningAPIView.post: the session is created with the total alone, its
\* mood_score and anxiety_score are NULL
screening_post(data) ==
    LET total_score == SumSeq(data.responses)
        risk_level == SerializerRisk(total_score)
    IN  /\ WellnessSession' = Append(WellnessSession,
              [session_id    |-> "SESS" \o Pad3(Len(WellnessSession)),
               student_id    |-> data.student_id,
               screener_type |-> data.screener_type,
               total_score   |-> total_score,
               mood_score    |-> NaNum,
               anxiety_score |-> NaNum,
               risk_level    |-> risk_level,
               created_at    |-> now])
        /\ result' = [op |-> "ScreeningAPIView.post", risk_level |-> risk_level,
                      total_score |-> total_score]
        /\ UNCHANGED <<actions, students, csv_files, writers, k_threshold,
                       K_ANONYMITY_THRESHOLD, now, wellness_sessions,
                       learning_sessions, LearningSession, Pattern>>

\* WellnessCheckView.post: the result page is rendered, nothing is stored
wellness_check_post(mood_score, anxiety_score) ==
    /\ result' = [op |-> "WellnessCheckView.post", mood_score |-> mood_score,
                  anxiety_score |-> anxiety_score,
                  risk_level |-> CheckViewRisk(mood_score + anxiety_score)]
    /\ UNCHANGED <<actions, students, csv_files, writers, k_threshold,
                   K_ANONYMITY_THRESHOLD, now, wellness_sessions,
                   learning_sessions, WellnessSession, LearningSession, Pattern>>

(***************************************************************************)
(* SpecIntake: sessions are added to the CSV store, checked in, screened   *)
(* and classified by the check view, with scores in and out of 1..10.      *)
(***************************************************************************)
IntakeScores == {0, 3, 5, 8, 11}

IntakeSessionData ==
    [student_id : {"STU001"}, mood_score : {3, 8}, anxiety_score : {8, 11},
     risk_level : {"L2", "L4"}]

IntakeCheckinData ==
    [student_id : {"STU001"}, mood_score : IntakeScores, anxiety_score : IntakeScores]
        \cup [student_id : {"STU001"}, anxiety_score : IntakeScores]

IntakeScreeningData ==
    [student_id : {"STU001"}, screener_type : {"GAD-2"}, responses : {<<1, 2>>, <<3, 3>>}]

IntakeRows == Len(wellness_sessions.rows) + Len(WellnessSession)

IntakeAdd ==
    /\ IntakeRows < MaxIntakeRows
    /\ \E session_data \in IntakeSessionData : add_wellness_session(session_data, 0)

IntakeCheckin ==
    /\ IntakeRows < MaxIntakeRows
    /\ \E data \in IntakeCheckinData : wellness_checkin(data)

IntakeScreening ==
    /\ IntakeRows < MaxIntakeRows
    /\ \E data \in IntakeScreeningData : screening_post(data)

IntakeCheck ==
    \E mood_score \in IntakeScores, anxiety_score \in IntakeScores :
        wellness_check_post(mood_score, anxiety_score)

NextIntake == IntakeAdd \/ IntakeCheckin \/ IntakeScreening \/ IntakeCheck

SpecIntake == InitTrend /\ [][NextIntake]_vars

\* C23: every stored wellness session, in the CSV store and in the database,
\* has a mood_score and an anxiety_score within 1..10 and a risk_level among
\* L1, L2 and L3.
C23_StoredScoresInRange ==
    /\ \A i \in 1..Len(wellness_sessions.rows) :
          /\ wellness_sessions.rows[i]["mood_score"] \in 1..10
          /\ wellness_sessions.rows[i]["anxiety_score"] \in 1..10
          /\ wellness_sessions.rows[i]["risk_level"] \in {"L1", "L2", "L3"}
    /\ \A i \in 1..Len(WellnessSession) :
          /\ WellnessSession[i].mood_score \in 1..10
          /\ WellnessSession[i].anxiety_score \in 1..10
          /\ WellnessSession[i].risk_level \in {"L1", "L2", "L3"}

\* C30: WellnessCheckView.post gives a pair of scores within 1..10 the risk
\* level that WellnessSessionSerializer.create gives the same pair.
C30_RiskPathsAgree ==
    (/\ result.op = "WellnessCheckView.post"
     /\ result.mood_score \in 1..10
     /\ result.anxiety_score \in 1..10)
        => result.risk_level = SerializerRisk(result.mood_score + result.anxiety_score)

(***************************************************************************)
(* The read operations of CSVDataProcessor as calls.  The filters of       *)
(* get_students map a column to [isin |-> values] for a list of accepted   *)
(* values or to [eq |-> value]; no filters (None or {}) is the empty       *)
(* mapping.                                                                *)
(***************************************************************************)
MaxReadRows == 2        \* rows of each table in SpecRead

\* CSVDataProcessor.get_students
get_students(filters) ==
    LET df == students
        Match(r, key) == IF "isin" \in DOMAIN filters[key]
                         THEN r[key] \in filters[key].isin
                         ELSE r[key] = filters[key].eq
        Keep(r) == \A key \in DOMAIN filters \cap df.columns : Match(r, key)
    IN  IF DOMAIN filters # {} /\ ~IsEmpty(df) THEN Filter(df, Keep) ELSE df

\* a call of get_students: the frame returned is a copy or rows of one
call_get_students(filters) ==
    /\ result' = [op |-> "get_students", value |-> get_students(filters)]
    /\ UNCHANGED <<actions, students, csv_files, writers, k_threshold,
                   K_ANONYMITY_THRESHOLD, now, wellness_sessions,
                   learning_sessions, WellnessSession, LearningSession, Pattern>>

\* a call of get_wellness_sessions
call_get_wellness_sessions(student_id, start_date, end_date) ==
    /\ result' = [op |-> "get_wellness_sessions",
                  value |-> get_wellness_sessions(student_id, start_date, end_date)]
    /\ UNCHANGED <<actions, students, csv_files, writers, k_threshold,
                   K_ANONYMITY_THRESHOLD, now, wellness_sessions,
                   learning_sessions, WellnessSession, LearningSession, Pattern>>

\* a call of get_learning_sessions
call_get_learning_sessions(student_id, course_id, start_date, end_date) ==
    /\ result' = [op |-> "get_learning_sessions",
                  value |-> get_learning_sessions(student_id, course_id,
                                                  start_date, end_date)]
    /\ UNCHANGED <<actions, students, csv_files, writers, k_threshold,
                   K_ANONYMITY_THRESHOLD, now, wellness_sessions,
                   learning_sessions, WellnessSession, LearningSession, Pattern>>

(***************************************************************************)
(* SpecRead: the processor is constructed over a students.csv and a        *)
(* learning_sessions.csv, wellness sessions are added and every read       *)
(* operation is called.                                                    *)
(***************************************************************************)
\* CSVDataProcessor._load_data on students.csv
LoadedStudents ==
    [columns |-> {"student_id", "age_band"},
     rows |-> <<[student_id |-> "STU001", age_band |-> "18-20"],
                [student_id |-> "STU002", age_band |-> "20-22"]>>]

ReadLearningRows ==
    {[student_id |-> "STU001", course_id |-> "C1", topic |-> "algebra",
      comprehension_level |-> "low"],
     [student_id |-> "STU002", course_id |-> "C2", topic |-> "calculus",
      comprehension_level |-> "high"]}

ReadSessionData ==
    [student_id : {"STU001", "STU002"}, mood_score : {5},
     anxiety_score : {Largest(TrendScores)}, risk_level : {"L3"}]

\* no filters, one value of a column, one value of a column the table lacks
ReadFilters ==
    {<<>>, [age_band |-> [eq |-> "18-20"]], [hometown |-> [eq |-> "Pune"]]}

\* a list of values of a column
ReadListFilters ==
    {[age_band |-> [isin |-> {"20-22", "24+"}]]}

InitRead ==
    /\ now = Epoch
    /\ wellness_sessions = EmptyDataFrame
    /\ \E n \in 0..MaxReadRows : \E file \in [1..n -> ReadLearningRows] :
          learning_sessions = LoadedLearning(file)
    /\ students = LoadedStudents
    /\ actions = EmptyDataFrame
    /\ WellnessSession = <<>>
    /\ LearningSession = <<>>
    /\ Pattern = <<>>
    /\ csv_files = <<>>
    /\ writers = <<>>
    /\ result = [op |-> "__init__"]
    /\ k_threshold = DEFAULT_K
    /\ K_ANONYMITY_THRESHOLD = DEFAULT_K

ReadAdd ==
    /\ Len(wellness_sessions.rows) < MaxReadRows
    /\ \E session_data \in ReadSessionData : add_wellness_session(session_data, 1)

ReadStudents ==
    \/ \E filters \in ReadFilters : call_get_students(filters)
    \/ \E filters \in ReadListFilters : call_get_students(filters)

ReadWellness ==
    \E student_id \in {None, "STU001"}, start_date \in {NoDate, now - 1},
       end_date \in {NoDate, now - 1} :
        call_get_wellness_sessions(student_id, start_date, end_date)

ReadLearning ==
    \E student_id \in {None, "STU001"}, course_id \in {None, "C1"},
       start_date \in {NoDate, now - 1} :
        call_get_learning_sessions(student_id, course_id, start_date, NoDate)

ReadAssess == \E days_back \in {30} : get_student_risk_assessment("STU001", days_back)

ReadReport ==
    \E class_id \in {None, "C1"} : generate_analytics_report(class_id, 7)

NextRead ==
    ReadAdd \/ ReadStudents \/ ReadWellness \/ ReadLearning \/ ReadAssess \/ ReadReport

SpecRead == InitRead /\ [][NextRead]_vars

\* the operations that read the tables of the processor
ReadOperations ==
    {"get_students", "get_wellness_sessions", "get_learning_sessions",
     "get_student_risk_assessment", "generate_analytics_report"}

\* C25: a call of a read operation leaves the three tables of the processor
\* as they were: the same columns and the same rows with the same values.
C25_ReadsLeaveTables ==
    [][result'.op \in ReadOperations =>
          /\ students' = students
          /\ wellness_sessions' = wellness_sessions
          /\ learning_sessions' = learning_sessions]_vars

\* C25 witness: a report whose temporal rule computed the hours of two
\* sessions of its window has been made, and the table has no hour column.
C25_Witness ==
    /\ Reported
    /\ Len(ReportedWellness.rows) = 2
    /\ "anxiety_score" \in ReportedWellness.columns
    /\ "hour" \notin wellness_sessions.columns
    /\ ~IsEmpty(learning_sessions)

(***************************************************************************)
(* CSVDataProcessor.add_action: an action_id that action_data lacks is     *)
(* generated from the length of the table.  The whole table is saved       *)
(* after the append.                                                       *)
(***************************************************************************)
add_action(action_data) ==
    LET with_id == [c \in DOMAIN action_data \cup {"action_id"} |->
                      IF c \in DOMAIN action_data THEN action_data[c]
                      ELSE "ACT" \o Pad3(Len(actions.rows) + 1)]
    IN  /\ actions' = ConcatRow(actions, with_id)
        /\ result' = [op |-> "add_action", value |-> TRUE]
        /\ UNCHANGED <<students, csv_files, writers, k_threshold,
                       K_ANONYMITY_THRESHOLD, now, wellness_sessions,
                       learning_sessions, WellnessSession, LearningSession,
                       Pattern>>

(***************************************************************************)
(* The identifiers of the rows: sessions and actions are added with and    *)
(* without an identifier of the caller.  A caller that supplies one        *)
(* supplies one that no row of the table has.                              *)
(***************************************************************************)
MaxIdRows == 3

IdsOf(df, col) == {df.rows[i][col] : i \in 1..Len(df.rows)}

IdsDistinct(df, col) ==
    \A i, j \in 1..Len(df.rows) : i # j => df.rows[i][col] # df.rows[j][col]

IdSessionData ==
    [student_id : {"STU001"}, mood_score : {5}, anxiety_score : {5},
     risk_level : {"L2"}]

IdSuppliedSessionData ==
    [session_id : {"WS001", "WS002", "WS003", "WS900"},
     student_id : {"STU001"}, mood_score : {5}, anxiety_score : {5},
     risk_level : {"L2"}]

IdActionData ==
    [student_id : {"STU001"}, action_text : {"walk"},
     status : {"pending"}]

IdSuppliedActionData ==
    [action_id : {"ACT001", "ACT002", "ACT003", "ACT900"},
     student_id : {"STU001"}, action_text : {"walk"},
     status : {"pending"}]

IdAddSession ==
    /\ Len(wellness_sessions.rows) < MaxIdRows
    /\ \E session_data \in IdSessionData : add_wellness_session(session_data, 1)

IdAddSuppliedSession ==
    /\ Len(wellness_sessions.rows) < MaxIdRows
    /\ \E session_data \in IdSuppliedSessionData :
          /\ session_data.session_id \notin IdsOf(wellness_sessions, "session_id")
          /\ add_wellness_session(session_data, 1)

IdAddAction ==
    /\ Len(actions.rows) < MaxIdRows
    /\ \E action_data \in IdActionData : add_action(action_data)

IdAddSuppliedAction ==
    /\ Len(actions.rows) < MaxIdRows
    /\ \E action_data \in IdSuppliedActionData :
          /\ action_data.action_id \notin IdsOf(actions, "action_id")
          /\ add_action(action_data)

NextIds == IdAddSession \/ IdAddSuppliedSession \/ IdAddAction \/ IdAddSuppliedAction

SpecIds == InitTrend /\ [][NextIds]_vars

\* C29: the session_id values of the sessions table are pairwise distinct
\* and so are the action_id values of the actions table, after any calls
\* that omit the identifier mixed with calls that supply one no row has.
C29_IdentifiersDistinct ==
    /\ IdsDistinct(wellness_sessions, "session_id")
    /\ IdsDistinct(actions, "action_id")

(***************************************************************************)
(* SpecScored: the temporal rule of both detectors over sessions of which  *)
(* some have no anxiety score (NULL in the database, NaN in the CSV        *)
(* table).                                                                 *)
(***************************************************************************)
MaxScoredRows == 3

ScoredSessionFields ==
    [student_id : {"STU001"}, mood_score : {5},
     anxiety_score : {NaNum, 9}, risk_level : {"L2"}]

ScoredSessionData ==
    [student_id : {"STU001"}, anxiety_score : {9}, risk_level : {"L2"}]
        \cup [student_id : {"STU001"}, mood_score : {5},
              risk_level : {"L2"}]

InitScored ==
    /\ InitStore
    /\ k_threshold \in KValues
    /\ K_ANONYMITY_THRESHOLD = k_threshold

ScoredCreate ==
    /\ Len(WellnessSession) < MaxScoredRows
    /\ \E fields \in ScoredSessionFields : create_WellnessSession(fields)

ScoredAdd ==
    /\ Len(wellness_sessions.rows) < MaxScoredRows
    /\ \E session_data \in ScoredSessionData : add_wellness_session(session_data, 0)

ScoredDetect ==
    /\ Len(Pattern) < MaxPatterns
    /\ detect_patterns(None, 7)

ScoredReport == generate_analytics_report(None, 7)

NextScored == ScoredCreate \/ ScoredAdd \/ ScoredDetect \/ ScoredReport

SpecScored == InitScored /\ [][NextScored]_vars

\* the scores of an hour of the reported window that entered the mean
ReportedScores(hour) ==
    IF "anxiety_score" \in ReportedWellness.columns
    THEN ColumnValues(HourRows(ReportedWellness, hour), "anxiety_score")
    ELSE <<>>

\* C28: the k_count of a temporal pattern is the number of sessions whose
\* anxiety score entered the mean of its hour group: the sessions of the
\* group that have a score, in the detector of the database and in the
\* report of the CSV store.
C28_KCountIsScoresInMean ==
    /\ \A i \in 1..Len(CreatedOfType("temporal")) :
          LET p == CreatedOfType("temporal")[i]
          IN  p.k_count = Len(Scored(HourGroup(WindowSessions, p.pattern_data.hour)))
    /\ Reported =>
          \A i \in 1..Len(ReportPatterns("temporal")) :
              LET p == ReportPatterns("temporal")[i]
              IN  \A hour \in 0..23 :
                      p.description = "High anxiety at hour " \o ToString(hour)
                          => p.k_count = Len(ReportedScores(hour))

(***************************************************************************)
(* SpecReverse: up to ten sessions of one student, recorded one minute     *)
(* apart, and the risk assessment over them.  The assessment is compared   *)
(* with the trend of the same scores in the reverse order of time.         *)
(***************************************************************************)
MaxReverseRows == 10

ReverseAdd ==
    /\ Len(wellness_sessions.rows) < MaxReverseRows
    /\ \E session_data \in TrendSessionData : add_wellness_session(session_data, 1)

ReverseAssess == get_student_risk_assessment("STU001", 30)

NextReverse == ReverseAdd \/ ReverseAssess

SpecReverse == InitTrend /\ [][NextReverse]_vars

\* the sessions of the window in the order of created_at, and the same
\* sessions with the order of time reversed
SortedWindow ==
    sort_values(get_wellness_sessions(result.student_id,
                                      now - result.days_back * DAY, NoDate),
                "created_at")

ReversedWindow ==
    [columns |-> SortedWindow.columns, rows |-> Reverse(SortedWindow.rows)]

Opposite(trend) ==
    IF trend = "Worsening" THEN "Improving"
    ELSE IF trend = "Improving" THEN "Worsening" ELSE trend

\* C26: for n >= 2 sessions in the window, the trend of the sessions taken
\* in the reverse order of time is the opposite of the trend assessed:
\* Worsening for Improving, Improving for Worsening, Stable for Stable.
C26_TrendAntisymmetric ==
    (Assessed /\ Len(SortedWindow.rows) >= 2) =>
        TrendOf(ReversedWindow) = Opposite(result.trend)

(***************************************************************************)
(* SpecMiddle: up to five sessions of one student, some of them recorded   *)
(* with an earlier created_at, and the risk assessment over thirty days:   *)
(* the middle session of an odd number of sessions.                        *)
(***************************************************************************)
MaxMiddleRows == 5

MiddleAdd ==
    /\ Len(wellness_sessions.rows) < MaxMiddleRows
    /\ \E session_data \in TrendSessionData : add_wellness_session(session_data, 1)

MiddleAddBackdated ==
    /\ Len(wellness_sessions.rows) < MaxMiddleRows
    /\ Cardinality(Backdated) < MaxBackdated
    /\ \E session_data \in TrendSessionData :
          add_wellness_session(session_data @@ [created_at |-> now - DAY], 1)

MiddleAssess == get_student_risk_assessment("STU001", 30)

NextMiddle == MiddleAdd \/ MiddleAddBackdated \/ MiddleAssess

SpecMiddle == InitTrend /\ [][NextMiddle]_vars

\* the sorted sessions with the anxiety score of the middle one replaced
WithMiddleScore(sessions_sorted, score) ==
    LET mid == (Len(sessions_sorted.rows) \div 2) + 1
    IN  [columns |-> sessions_sorted.columns,
         rows    |-> [sessions_sorted.rows EXCEPT ![mid]["anxiety_score"] = score]]

\* C27: for an odd number n >= 3 of sessions in the window, the trend
\* assessed is the trend of every history that differs from the assessed
\* one in the anxiety score of the middle session only.
C27_MiddleSessionIgnored ==
    (Assessed /\ Len(SortedWindow.rows) >= 3 /\ Len(SortedWindow.rows) % 2 = 1) =>
        \A score \in TrendScores :
            TrendOf(WithMiddleScore(SortedWindow, score)) = result.trend

\* C27 witness: five sessions assessed as Worsening whose middle session
\* has the highest score of the history.
C27_Witness ==
    /\ Assessed
    /\ Len(SortedWindow.rows) = 5
    /\ result.trend = "Worsening"
    /\ SortedWindow.rows[3]["anxiety_score"] = Largest(TrendScores)
    /\ SortedWindow.rows[1]["anxiety_score"] = 1

(***************************************************************************)
(* SpecWriters: concurrent writers of one CSV file.  Two CSVDataProcessor  *)
(* instances share wellness_sessions.csv: each loads the file when it is   *)
(* constructed and add_wellness_session appends to the table in memory and *)
(* writes the whole table.  Two add_user_interest calls at a time share    *)
(* user_interests.csv: each call reads the file, appends and writes the    *)
(* whole table.  The steps of different writers interleave.                *)
(***************************************************************************)
MaxWriterCalls == 1

Processors == {"P1", "P2"}
InterestWriters == {"U1", "U2"}

\* the file a writer reads and writes
FileOf(w) == IF w \in Processors THEN "wellness_sessions" ELSE "user_interests"

\* the student a processor records sessions of, the user of an interest call
StudentOf(w) == IF w = "P1" THEN "STU001" ELSE "STU002"
UserOf(w) == IF w = "U1" THEN 1 ELSE 2

\* the columns of the interests file that the calls of the model fill
InterestColumns == {"Id", "UserId", "Topic", "Interest"}

RowIn(row, df) == \E i \in 1..Len(df.rows) : df.rows[i] = row

\* a slip that writes the rows the file lacks after the rows it has
Mutant_to_csv(stored, df) ==
    [columns |-> stored.columns \cup df.columns,
     rows    |-> stored.rows \o SelectSeq(df.rows, LAMBDA r : ~RowIn(r, stored))]

\* df.to_csv(file_path, index=False): the file is replaced by the table
to_csv(stored, df) == df

\* CSVDataProcessor.__init__: _load_data reads the file into memory
Construct(w) ==
    /\ w \in Processors
    /\ writers[w].pc = "new"
    /\ writers' = [writers EXCEPT ![w].pc = "idle",
                                  ![w].table = csv_files[FileOf(w)]]
    /\ result' = [op |-> "__init__", writer |-> w]
    /\ UNCHANGED <<actions, students, csv_files, k_threshold,
                   K_ANONYMITY_THRESHOLD, now, wellness_sessions,
                   learning_sessions, WellnessSession, LearningSession, Pattern>>

\* add_wellness_session up to the pd.concat: the identifier is generated
\* and the row is appended to the table in memory
WriterAppend(w) ==
    /\ w \in Processors
    /\ writers[w].pc = "idle"
    /\ Len(writers[w].added) < MaxWriterCalls
    /\ LET row == [session_id |-> "WS" \o Pad3(Len(writers[w].table.rows) + 1),
                   student_id |-> StudentOf(w)]
       IN  writers' = [writers EXCEPT ![w].pc = "appended",
                                      ![w].table = ConcatRow(@, row),
                                      ![w].row = row]
    /\ result' = [op |-> "pd.concat", writer |-> w]
    /\ UNCHANGED <<actions, students, csv_files, k_threshold,
                   K_ANONYMITY_THRESHOLD, now, wellness_sessions,
                   learning_sessions, WellnessSession, LearningSession, Pattern>>

\* add_wellness_session from _save_to_csv on: the whole table is written
\* and the call returns True
WriterSave(w) ==
    /\ w \in Processors
    /\ writers[w].pc = "appended"
    /\ csv_files' = [csv_files EXCEPT
                        ![FileOf(w)] = to_csv(@, writers[w].table)]
    /\ writers' = [writers EXCEPT ![w].pc = "idle",
                                  ![w].added = Append(@, writers[w].row)]
    /\ result' = [op |-> "add_wellness_session", writer |-> w, value |-> TRUE]
    /\ UNCHANGED <<actions, students, k_threshold,
                   K_ANONYMITY_THRESHOLD, now, wellness_sessions,
                   learning_sessions, WellnessSession, LearningSession, Pattern>>

\* add_user_interest: df = self.load_interests()
InterestLoad(w) ==
    /\ w \in InterestWriters
    /\ writers[w].pc = "idle"
    /\ Len(writers[w].added) < MaxWriterCalls
    /\ writers' = [writers EXCEPT ![w].pc = "loaded",
                                  ![w].table = csv_files[FileOf(w)]]
    /\ result' = [op |-> "load_interests", writer |-> w]
    /\ UNCHANGED <<actions, students, csv_files, k_threshold,
                   K_ANONYMITY_THRESHOLD, now, wellness_sessions,
                   learning_sessions, WellnessSession, LearningSession, Pattern>>

\* add_user_interest: next_id and new_df
InterestConcat(w) ==
    /\ w \in InterestWriters
    /\ writers[w].pc = "loaded"
    /\ LET df == writers[w].table
           next_id == IF IsEmpty(df) THEN 1
                      ELSE Largest({df.rows[i]["Id"] : i \in 1..Len(df.rows)}) + 1
           new_record == [Id |-> next_id, UserId |-> UserOf(w),
                          Topic |-> "exams", Interest |-> "interested"]
       IN  writers' = [writers EXCEPT ![w].pc = "concatenated",
                                      ![w].table = ConcatRow(df, new_record),
                                      ![w].row = new_record]
    /\ result' = [op |-> "pd.concat", writer |-> w]
    /\ UNCHANGED <<actions, students, csv_files, k_threshold,
                   K_ANONYMITY_THRESHOLD, now, wellness_sessions,
                   learning_sessions, WellnessSession, LearningSession, Pattern>>

\* add_user_interest: self.save_interests(new_df) and return True
InterestSave(w) ==
    /\ w \in InterestWriters
    /\ writers[w].pc = "concatenated"
    /\ csv_files' = [csv_files EXCEPT
                        ![FileOf(w)] = to_csv(@, writers[w].table)]
    /\ writers' = [writers EXCEPT ![w].pc = "idle",
                                  ![w].added = Append(@, writers[w].row)]
    /\ result' = [op |-> "add_user_interest", writer |-> w, value |-> TRUE]
    /\ UNCHANGED <<actions, students, k_threshold,
                   K_ANONYMITY_THRESHOLD, now, wellness_sessions,
                   learning_sessions, WellnessSession, LearningSession, Pattern>>

\* no wellness_sessions.csv yet (an empty table is loaded); the interests
\* file was created with its header by ensure_interests_file_exists
InitWriters ==
    /\ now = Epoch
    /\ wellness_sessions = EmptyDataFrame
    /\ learning_sessions = EmptyDataFrame
    /\ students = EmptyDataFrame
    /\ actions = EmptyDataFrame
    /\ WellnessSession = <<>>
    /\ LearningSession = <<>>
    /\ Pattern = <<>>
    /\ k_threshold = DEFAULT_K
    /\ K_ANONYMITY_THRESHOLD = DEFAULT_K
    /\ csv_files = [wellness_sessions |-> EmptyDataFrame,
                    user_interests |-> [columns |-> InterestColumns, rows |-> <<>>]]
    /\ writers = [w \in Processors \cup InterestWriters |->
                    [pc |-> IF w \in Processors THEN "new" ELSE "idle",
                     table |-> EmptyDataFrame, row |-> <<>>, added |-> <<>>]]
    /\ result = [op |-> "__init__"]

NextWriters ==
    \E w \in Processors \cup InterestWriters :
        \/ Construct(w)
        \/ WriterAppend(w)
        \/ WriterSave(w)
        \/ InterestLoad(w)
        \/ InterestConcat(w)
        \/ InterestSave(w)

SpecWriters == InitWriters /\ [][NextWriters]_vars

\* the rows whose call returned True
AddedBy(w) == {writers[w].added[i] : i \in 1..Len(writers[w].added)}

\* two rows of two writers of a file, each added by a call that returned
\* True, neither in the table the other writer holds
Unseen(w, v, r, q) ==
    /\ w # v /\ FileOf(w) = FileOf(v)
    /\ r \in AddedBy(w) /\ q \in AddedBy(v)
    /\ ~RowIn(q, writers[w].table)
    /\ ~RowIn(r, writers[v].table)

\* C24: the writes of a file are not serialized: when two writers of a file
\* have each added a row by a call that returned True and neither holds the
\* row of the other in its table, the file lacks one of the two rows.
C24_LostUpdate ==
    \A w, v \in Processors \cup InterestWriters :
        \A r \in AddedBy(w), q \in AddedBy(v) :
            Unseen(w, v, r, q) =>
                ~(RowIn(r, csv_files[FileOf(w)]) /\ RowIn(q, csv_files[FileOf(w)]))

\* C24 witness: both processors returned True from add_wellness_session and
\* both add_user_interest calls returned True, and each file holds the row
\* of one writer only.
C24_Witness ==
    /\ \A w \in Processors \cup InterestWriters :
          Len(writers[w].added) = 1 /\ writers[w].pc = "idle"
    /\ Len(csv_files["wellness_sessions"].rows) = 1
    /\ RowIn(writers["P2"].added[1], csv_files["wellness_sessions"])
    /\ ~RowIn(writers["P1"].added[1], csv_files["wellness_sessions"])
    /\ Len(csv_files["user_interests"].rows) = 1
    /\ RowIn(writers["U1"].added[1], csv_files["user_interests"])
    /\ ~RowIn(writers["U2"].added[1], csv_files["user_interests"])

=============================================================================
